---- MODULE Spec2Model ----
(***************************************************************************)
(* Verification model of syft-installer: the process supervisor            *)
(* (ProcessManager in _process.py, Launcher in launcher.py), the           *)
(* configuration store (_config.py, config.py) and the install flows       *)
(* (_syftbox.py, _simple_installer.py).                                    *)
(***************************************************************************)
EXTENDS Integers, Sequences, FiniteSets, TLC

(***************************************************************************)
(* Bounds of the model and constants of the program.                       *)
(***************************************************************************)
\* number of process ids the OS hands out in one behaviour
MaxPid == 3
\* ProcessManager.stop: for _ in range(10)
PollLimit == 10

Pids == 1..MaxPid
\* two supervisor instances share the host; Obs is the one whose calls are
\* recorded in the history variable h, Other is any other tool process
Obs == "obs"
Other == "other"
Insts == {Obs, Other}
\* _instance = None
NoInst == "none"
\* self.process = None
NoProc == 0

VARIABLES
    \* ---- host ---------------------------------------------------------
    host,         \* platform.system(): "unix" or "windows"
    scanTool,     \* which scan is_running() ends up using: "pgrep", "ps", "none"
    variant,      \* supervisor class in use: "pm" (ProcessManager) or "launcher"
    active,       \* the supervisor instances that make calls in this behaviour
    binaryExists, \* config.binary_path.exists()
    table,        \* OS process table: pid -> "free"|"run"|"term"|"killed"|"exited"
    kind,         \* command line class of each pid: "daemon" | "other", and
                  \* "foreign" (another user's daemon) | "tool" (see Listed)
    nextPid,      \* next pid the OS hands out
    \* ---- supervisor instances ------------------------------------------
    pc,           \* position of each instance inside start()/stop()
    process,      \* self.process: pid of the Popen handle, or NoProc
    op,           \* call in progress: "none" | "start" | "stop"
    bg,           \* background argument of the start() in progress
    polls,        \* poll() calls made so far by the loop of stop()
    \* ---- history --------------------------------------------------------
    h,            \* record of the current (or last) call of instance Obs
    \* ---- configuration store and install flows ---------------------------
    cfgFile,      \* content of ~/.syftbox/config.json
    lastSaved,    \* the Config whose save() wrote cfgFile last, if any did
    probe,        \* the last probe call (load, is_installed) and its result
    fl,           \* the install flow in progress (or the last one)
    \* ---- authenticator ---------------------------------------------------
    auth,         \* the Authenticator call in progress (or the last one)
    \* ---- concurrent writers ----------------------------------------------
    wr,           \* the save() of each of two tool processes
    \* ---- facade -----------------------------------------------------------
    fc,           \* the _SyftBox call in progress (or the last one)
    dataDir,      \* ~/SyftBox exists
    \* ---- pure functions ---------------------------------------------------
    pure,         \* the last call of a pure function: arguments and result
    instance,     \* the module-level _instance: the supervisor it holds
    prog          \* the ProgrammaticInstaller and its last call

hostVars == <<host, scanTool, variant, active>>
tableVars == <<table, kind, nextPid>>
instVars == <<pc, process, op, bg, polls>>
supVars == <<hostVars, binaryExists, tableVars, instVars, h>>
extVars == <<pure, instance, prog>>
auxVars == <<auth, wr, fc, dataDir, extVars>>
cfgVars == <<cfgFile, lastSaved, probe, fl, auxVars>>

vars == <<supVars, cfgVars>>

(***************************************************************************)
(* Process table helpers.                                                  *)
(***************************************************************************)
\* a process that has not exited yet (a signal may be pending)
AliveIn(t, p) == t[p] \in {"run", "term", "killed"}
Alive(p) == AliveIn(table, p)

\* the command line contains "syftbox daemon", whoever owns the process
Matches(p) == Alive(p) /\ kind[p] \in {"daemon", "foreign"}

\* the line of ps aux contains 'syftbox' (and not 'grep'): a daemon, or a
\* "tool" such as `syftbox login` or an editor opened on ~/SyftBox
Listed(p) == Alive(p) /\ kind[p] \in {"daemon", "foreign", "tool"}

\* os.kill(pid, sig) succeeds: the process exists and is the caller's own
Signallable(p) == Alive(p) /\ kind[p] # "foreign"

\* Popen.poll() is None: the handle's child has not exited
PollIsNone(i) == process[i] # NoProc /\ Alive(process[i])

\* a SIGTERM that reaches every running daemon, as pkill would send it
TerminateAll(t, p) ==
    [q \in Pids |-> IF t[q] = "run" /\ (q = p \/ kind[q] \in {"daemon", "foreign"})
                    THEN "term" ELSE t[q]]

\* os.kill(pid, SIGTERM) / Popen.terminate() on the table
Terminate(t, p) == IF t[p] = "run" THEN [t EXCEPT ![p] = "term"] ELSE t

\* os.kill(pid, SIGKILL) / Popen.kill() on the table
Kill(t, p) == IF t[p] \in {"run", "term"} THEN [t EXCEPT ![p] = "killed"] ELSE t

(***************************************************************************)
(* ProcessManager.is_running / Launcher.is_running                         *)
(***************************************************************************)
\* a variant that trusts the local handle before scanning
is_running_handle(i) ==
    \/ PollIsNone(i)
    \/ (scanTool # "none" /\ \E p \in Pids : Matches(p))

\* pgrep -f "syftbox daemon"; if pgrep cannot be run, "syftbox daemon" in the
\* output of ps aux; if that cannot be run either, False
is_running(i) ==
    CASE scanTool = "pgrep" -> \E p \in Pids : Matches(p)
      [] scanTool = "ps"    -> \E p \in Pids : Matches(p)
      [] OTHER              -> FALSE

(***************************************************************************)
(* Configuration store: _config.py (dataclass Config) and config.py        *)
(* (pydantic Config).                                                      *)
(***************************************************************************)
Keys == {"email", "data_dir", "server_url", "client_url", "refresh_token"}

\* values: a Python value is None or a str; a JSON value is null or a
\* string; "absent" marks a key that is not in the object / not passed
PyNone == [t |-> "none", s |-> ""]
Str(x) == [t |-> "str", s |-> x]
Absent == [t |-> "absent", s |-> ""]
JNull == [t |-> "null", s |-> ""]

\* RuntimeEnvironment().default_data_dir outside Colab
DefaultDataDir == "~/SyftBox"
\* server_url: str = "https://syftbox.net"
DefaultServer == "https://syftbox.net"
\* client_url: str = "http://localhost:7938"
DefaultClient == "http://localhost:7938"

\* Python truthiness of a value: None and "" are falsy
Truthy(v) == v.t = "str" /\ v.s # ""

\* dataclass field defaults of _config.Config
FieldDefault(k) ==
    CASE k = "server_url" -> Str(DefaultServer)
      [] k = "client_url" -> Str(DefaultClient)
      [] OTHER            -> PyNone

\* Config.__post_init__: if not self.data_dir: self.data_dir = default
PostInit(c) ==
    IF Truthy(c["data_dir"]) THEN c
    ELSE [c EXCEPT !["data_dir"] = Str(DefaultDataDir)]

\* Config(**args): absent arguments take the field defaults, then
\* __post_init__ runs
MakeConfig(args) ==
    PostInit([k \in Keys |-> IF args[k].t = "absent" THEN FieldDefault(k)
                             ELSE args[k]])

\* json.dump of one Python value: None -> null, str -> string
ToJson(v) == IF v.t = "none" THEN JNull ELSE v

\* json.load of one JSON value: null -> None, string -> str
FromJson(j) == IF j.t = "null" THEN PyNone ELSE j

\* the file states: no file, an empty (truncated) file, text that is not
\* JSON, a JSON document that is not an object, a JSON object
FileOf(st, f, extra) == [st |-> st, f |-> f, extra |-> extra]
NoFields == [k \in Keys |-> Absent]
Missing == FileOf("missing", NoFields, FALSE)
Garbage == FileOf("garbage", NoFields, FALSE)
NonObject == FileOf("nonobj", NoFields, FALSE)
Truncated == FileOf("empty", NoFields, FALSE)

\* a save() that forgets the refresh token
SerializeNoToken(c) ==
    FileOf("obj", [k \in Keys |-> IF k = "refresh_token" THEN JNull
                                  ELSE ToJson(c[k])], FALSE)

\* Config.save: the five fields, json.dump(data, f, indent=2)
Serialize(c) == FileOf("obj", [k \in Keys |-> ToJson(c[k])], FALSE)

\* the number of characters of the texts that occur in the file
StrLen(x) ==
    CASE x = "" -> 0
      [] x = "/d" -> 2
      [] x \in {"tok", "old", "acc"} -> 3
      [] x = "tok2" -> 4
      [] x = "a@b.c" -> 5
      [] x = "http://c" -> 8
      [] x \in {"https://s", "~/SyftBox"} -> 9
      [] x = "https://syftbox.net" -> 19
      [] x = "http://localhost:7938" -> 21
      [] OTHER -> 3

KeyLen(k) ==
    CASE k = "email" -> 5 [] k = "data_dir" -> 8 [] k = "server_url" -> 10
      [] k = "client_url" -> 10 [] OTHER -> 13

\* a JSON value as json.dump writes it: null, or the text in quotes
ValLen(j) == IF j.t = "str" THEN StrLen(j.s) + 2 ELSE 4

\* one member on its line with indent=2, its key in quotes, ": " and the
\* separator: 2 + (KeyLen + 2) + 2 + ValLen + 2
MemberLen(f, k) ==
    IF f[k].t = "absent" THEN 0 ELSE KeyLen(k) + ValLen(f[k]) + 8

\* the size of the file: the braces and the members of an object, the
\* size of what was there for a text that is not JSON
Length(file) ==
    CASE file.st \in {"missing", "empty"} -> 0
      [] file.st = "garbage" -> 12
      [] file.st = "nonobj" -> 2
      [] OTHER -> 2 + MemberLen(file.f, "email") + MemberLen(file.f, "data_dir")
                    + MemberLen(file.f, "server_url")
                    + MemberLen(file.f, "client_url")
                    + MemberLen(file.f, "refresh_token")
                    + (IF file.extra THEN 10 ELSE 0)

\* the writer's document is written from offset 0 into the file it opened:
\* a file unlinked since then stays away; a file that has meanwhile grown
\* longer than the document keeps its tail, and the result is the document
\* followed by that tail, text that is not JSON
Landed(new, cur) ==
    IF cur.st = "missing" THEN cur
    ELSE IF Length(new) >= Length(cur) THEN new
    ELSE FileOf("mixed", cur.f, cur.extra)

\* results of load(): None, a Config, or an exception
NoCfg == [k \in Keys |-> PyNone]
ResNone == [k |-> "none", c |-> NoCfg]
ResCfg(c) == [k |-> "config", c |-> c]
ResRaise == [k |-> "raise", c |-> NoCfg]

\* _config.Config.load: None if the file is missing; any exception while
\* reading, parsing or constructing gives None as well
Load(file) ==
    IF file.st # "obj" THEN ResNone
    ELSE LET data == [k \in Keys |->
                        IF k = "data_dir"
                           /\ (file.f[k].t = "absent" \/ ~Truthy(FromJson(file.f[k])))
                        THEN Str(DefaultDataDir)
                        ELSE IF file.f[k].t = "absent" THEN Absent
                        ELSE FromJson(file.f[k])]
         IN  IF file.extra \/ data["email"].t = "absent"
             THEN ResNone     \* TypeError from cls(**data)
             ELSE ResCfg(MakeConfig(data))

\* config.Config.load (pydantic): None if the file is missing; every
\* exception is re-raised as ConfigError
LoadLegacy(file) ==
    IF file.st = "missing" THEN ResNone
    ELSE IF file.st # "obj" THEN ResRaise
    ELSE LET f == file.f
             strOk(k) == f[k].t = "str"
             optStr(k) == f[k].t \in {"absent", "str"}
         IN  IF /\ strOk("email")
                /\ optStr("data_dir") /\ optStr("server_url")
                /\ optStr("client_url")
             THEN ResCfg([k \in Keys |->
                     IF f[k].t = "absent"
                     THEN (IF k = "data_dir" THEN Str(DefaultDataDir)
                           ELSE FieldDefault(k))
                     ELSE FromJson(f[k])])
             ELSE ResRaise    \* pydantic ValidationError -> ConfigError

\* results of a boolean probe
ResBool(b) == [k |-> IF b THEN "true" ELSE "false", c |-> NoCfg]

\* _SyftBox.is_installed: config is not None and binary_path.exists()
IsInstalled(file, bin) == ResBool(Load(file).k = "config" /\ bin)

\* config.is_installed: load_config(), binary_path.exists(), is_valid()
IsInstalledLegacy(file, bin) ==
    LET r == LoadLegacy(file)
    IN  IF r.k = "raise" THEN ResRaise
        ELSE IF r.k = "none" THEN ResBool(FALSE)
        ELSE IF ~bin THEN ResBool(FALSE)
        ELSE ResBool(Truthy(r.c["email"]) /\ Truthy(r.c["refresh_token"]))

\* the last probe since save() or an install flow was last entered: which
\* call, on what kind of file, what save() had last written the file (if
\* that still stood), and the result
NoProbe == [op |-> "none", cls |-> "missing", saved |-> ResNone, res |-> ResNone]

\* what a reader finds: no file; a file json.load rejects or that holds no
\* object; an object without the email key; an object with the email key
FileClass(file) ==
    CASE file.st = "missing" -> "missing"
      [] file.st # "obj" -> "invalid"
      [] file.f["email"].t = "absent" -> "lacking"
      [] OTHER -> "ok"

(***************************************************************************)
(* The validators of _utils.py / _validators.py. A text is known by its     *)
(* characters.                                                             *)
(***************************************************************************)
\* the texts the callers type
Texts ==
    {"", "12345678", "AB12CD34", " ab12 cd34 ", "1234", "1234-678",
     "a@b", "a b@c.d", "a@b.c",
     "ABCD1234", "ABCD123", "ABCD12345", "ABCD-123", "ABCD 234", "AAAAAAAA",
     "abcd1234", "aBcD1234", "ab cd 12 34", "a b c d 1 2 3 4", " ABCD1234 ",
     "   ", "ab\tcd1234", "AB\tCD1234", "ABCD234"}

\* the characters of a text
Chars(x) ==
    CASE x = "" -> <<>>
      [] x = "12345678" -> <<"1", "2", "3", "4", "5", "6", "7", "8">>
      [] x = "AB12CD34" -> <<"A", "B", "1", "2", "C", "D", "3", "4">>
      [] x = " ab12 cd34 " -> <<" ", "a", "b", "1", "2", " ", "c", "d", "3", "4", " ">>
      [] x = "1234" -> <<"1", "2", "3", "4">>
      [] x = "1234-678" -> <<"1", "2", "3", "4", "-", "6", "7", "8">>
      [] x = "a@b" -> <<"a", "@", "b">>
      [] x = "a b@c.d" -> <<"a", " ", "b", "@", "c", ".", "d">>
      [] x = "a@b.c" -> <<"a", "@", "b", ".", "c">>
      [] x = "ABCD1234" -> <<"A", "B", "C", "D", "1", "2", "3", "4">>
      [] x = "ABCD123" -> <<"A", "B", "C", "D", "1", "2", "3">>
      [] x = "ABCD12345" -> <<"A", "B", "C", "D", "1", "2", "3", "4", "5">>
      [] x = "ABCD-123" -> <<"A", "B", "C", "D", "-", "1", "2", "3">>
      [] x = "ABCD 234" -> <<"A", "B", "C", "D", " ", "2", "3", "4">>
      [] x = "AAAAAAAA" -> <<"A", "A", "A", "A", "A", "A", "A", "A">>
      [] x = "abcd1234" -> <<"a", "b", "c", "d", "1", "2", "3", "4">>
      [] x = "aBcD1234" -> <<"a", "B", "c", "D", "1", "2", "3", "4">>
      [] x = "ab cd 12 34" ->
            <<"a", "b", " ", "c", "d", " ", "1", "2", " ", "3", "4">>
      [] x = "a b c d 1 2 3 4" ->
            <<"a", " ", "b", " ", "c", " ", "d", " ", "1", " ", "2", " ",
              "3", " ", "4">>
      [] x = " ABCD1234 " -> <<" ", "A", "B", "C", "D", "1", "2", "3", "4", " ">>
      [] x = "   " -> <<" ", " ", " ">>
      [] x = "ab\tcd1234" -> <<"a", "b", "\t", "c", "d", "1", "2", "3", "4">>
      [] x = "AB\tCD1234" -> <<"A", "B", "\t", "C", "D", "1", "2", "3", "4">>
      [] x = "ABCD234" -> <<"A", "B", "C", "D", "2", "3", "4">>

\* the text with the given characters
Text(s) == CHOOSE x \in Texts : Chars(x) = s

\* re: \s
IsSpace(c) == c \in {" ", "\t", "\n"}

\* str.strip(): leading and trailing whitespace goes
Strip(s) ==
    LET idx == {i \in 1..Len(s) : ~IsSpace(s[i])}
    IN  IF idx = {} THEN <<>>
        ELSE SubSeq(s, CHOOSE i \in idx : \A j \in idx : i <= j,
                       CHOOSE i \in idx : \A j \in idx : i >= j)

\* str.upper() on one character
UpperChar(c) ==
    CASE c = "a" -> "A" [] c = "b" -> "B" [] c = "c" -> "C" [] c = "d" -> "D"
      [] OTHER -> c

Upper(s) == [i \in 1..Len(s) |-> UpperChar(s[i])]

\* str.replace(" ", "")
IsNotBlank(c) == c # " "
RemoveBlanks(s) == SelectSeq(s, IsNotBlank)

\* sanitize_otp: otp.strip().upper().replace(" ", "")
sanitize_otp(x) == Text(RemoveBlanks(Upper(Strip(Chars(x)))))

\* [0-9A-Z]
OtpChar(c) ==
    c \in {"0", "1", "2", "3", "4", "5", "6", "7", "8", "9",
           "A", "B", "C", "D", "E", "F", "G", "H", "I", "J", "K", "L", "M",
           "N", "O", "P", "Q", "R", "S", "T", "U", "V", "W", "X", "Y", "Z"}

\* {8} in the pattern of validate_otp
OtpLen == 8

\* re.match with a pattern ending in $: the end of the text, or just before
\* a newline that ends the text
BodyLen(s) ==
    IF Len(s) > 0 /\ s[Len(s)] = "\n" THEN {Len(s), Len(s) - 1} ELSE {Len(s)}

\* a validate_otp whose pattern has no $
validate_otp_prefix(x) ==
    LET s == Chars(x)
    IN  Len(s) >= OtpLen /\ \A i \in 1..OtpLen : OtpChar(s[i])

\* validate_otp: if not otp: False; re.match(r"^[0-9A-Z]{8}$", otp)
validate_otp(x) ==
    LET s == Chars(x)
    IN  /\ Len(s) > 0
        /\ OtpLen \in BodyLen(s)
        /\ \A i \in 1..OtpLen : OtpChar(s[i])

\* [^\s@]
AddrChar(c) == ~IsSpace(c) /\ c # "@"

\* re.match(r"^[^\s@]+@[^\s@]+\.[^\s@]+$", email)
EmailPattern(s) ==
    \E n \in BodyLen(s) : \E i, j \in 1..n :
        /\ 1 < i /\ i + 1 < j /\ j < n
        /\ s[i] = "@" /\ s[j] = "."
        /\ \A k \in 1..(i-1) : AddrChar(s[k])
        /\ \A k \in (i+1)..(j-1) : AddrChar(s[k])
        /\ \A k \in (j+1)..n : AddrChar(s[k])

\* parseaddr(email)[1] == email: on the texts used here, parseaddr hands
\* back the address unchanged unless it holds whitespace
ParseAddrKeeps(s) == \A i \in 1..Len(s) : ~IsSpace(s[i])

\* validate_email of a value that is None or a text
validate_email(v) ==
    /\ Truthy(v)
    /\ ParseAddrKeeps(Chars(v.s))
    /\ EmailPattern(Chars(v.s))

(***************************************************************************)
(* Authenticator (_auth.py): request_otp and verify_otp.                   *)
(***************************************************************************)
\* what the server hands out as accessToken and as refreshToken
AccessValues == {Str("acc")}
TokenValues == {Str("tok"), Str("tok2"), PyNone}

\* the answer to a POST: no answer (connection error, timeout), or a status
\* (2xx, 401, another 4xx/5xx) with a body that is a JSON object with or
\* without the two members, other JSON (null), or no JSON at all
Resp(status, body, a, b) ==
    [status |-> status, body |-> body, access |-> a, refresh |-> b]

NoResp == Resp("none", "none", Absent, Absent)

VerifyResponses ==
    {Resp("2xx", "object", a, b) : a \in AccessValues, b \in TokenValues}
    \cup {Resp("2xx", "object", Absent, Str("tok")),
          Resp("2xx", "object", Str("acc"), Absent),
          Resp("2xx", "object", Absent, Absent),
          Resp("2xx", "null", Absent, Absent),
          Resp("2xx", "text", Absent, Absent),
          Resp("401", "object", Absent, Absent),
          Resp("error", "object", Absent, Absent),
          Resp("error", "text", Absent, Absent),
          NoResp}

RequestResponses ==
    {Resp("2xx", "none", Absent, Absent),
     Resp("401", "object", Absent, Absent),
     Resp("error", "text", Absent, Absent),
     NoResp}

\* the local token pair
NoTokens == [access_token |-> Absent, refresh_token |-> Absent]

\* a verify_otp that hands the two tokens back the wrong way round
TokenPairSwapped(r) ==
    [access_token |-> FromJson(r.refresh), refresh_token |-> FromJson(r.access)]

\* {"access_token": result["accessToken"],
\*  "refresh_token": result["refreshToken"]}
TokenPair(r) ==
    [access_token |-> FromJson(r.access), refresh_token |-> FromJson(r.refresh)]

\* how a call ends: what it returns or raises, and the tokens it returns
Outcome(ret, tokens) == [ret |-> ret, tokens |-> tokens]

\* the checks verify_otp makes before it sends anything
VerifyInputOk(e, o) == validate_email(e) /\ validate_otp(sanitize_otp(o))

\* verify_otp once the POST has been answered with r. A 2xx body that is
\* no JSON makes response.json() raise: a RequestException in a requests
\* that derives its JSONDecodeError from it, a plain ValueError in an older
\* one. A 2xx body that is JSON null makes the membership test raise
\* TypeError. AuthenticationError comes with three messages.
VerifyReplies(r) ==
    CASE r.status = "none"  -> {Outcome("FailedError", NoTokens)}
      [] r.status = "401"   -> {Outcome("InvalidOtpError", NoTokens)}
      [] r.status = "error" -> {Outcome("FailedError", NoTokens)}
      [] r.body = "text"    -> {Outcome("FailedError", NoTokens),
                                Outcome("ValueError", NoTokens)}
      [] r.body = "null"    -> {Outcome("TypeError", NoTokens)}
      [] r.access.t = "absent" \/ r.refresh.t = "absent"
                            -> {Outcome("MissingTokensError", NoTokens)}
      [] OTHER              -> {Outcome("tokens", TokenPair(r))}

\* request_otp once the POST has been answered with r
RequestReplies(r) ==
    IF r.status = "2xx" THEN {Outcome("ok", NoTokens)}
    ELSE {Outcome("FailedError", NoTokens)}

\* the three AuthenticationErrors
IsAuthError(ret) ==
    ret \in {"FailedError", "InvalidOtpError", "MissingTokensError"}

\* what a call raises
IsError(ret) ==
    IsAuthError(ret) \/ ret \in {"ValidationError", "TypeError", "ValueError"}

\* the whole of verify_otp(e, o) against a server that would answer r
VerifyOutcomes(e, o, r) ==
    IF VerifyInputOk(e, o) THEN VerifyReplies(r)
    ELSE {Outcome("ValidationError", NoTokens)}

\* the whole of request_otp(e) against a server that would answer r
RequestOutcomes(e, r) ==
    IF validate_email(e) THEN RequestReplies(r)
    ELSE {Outcome("ValidationError", NoTokens)}

\* no call made yet
NoAuth ==
    [op |-> "none", stage |-> "idle", email |-> PyNone, otp |-> "",
     resp |-> NoResp, sent |-> 0, ret |-> "none", tokens |-> NoTokens,
     calls |-> 0, posts |-> 0]

\* no ProgrammaticInstaller built
NoProg ==
    [built |-> FALSE, email |-> PyNone, otpRequested |-> FALSE,
     waiting |-> FALSE, op |-> "none", ret |-> "none", sent |-> FALSE,
     wrote |-> FALSE, verified |-> FALSE, doneBefore |-> FALSE]

\* no install flow and no save() in progress
NoFlow ==
    [flow |-> "none", stage |-> "idle", cfg |-> NoCfg, email |-> PyNone,
     otp |-> "", startClient |-> FALSE, session |-> FALSE,
     otpRequested |-> FALSE, verified |-> FALSE, wrote |-> FALSE,
     complete |-> FALSE, base |-> Missing, fail |-> "none",
     result |-> "none", tokens |-> NoTokens, remote |-> NoResp]

\* a host without a config file, nothing probed, nothing in progress
InitStore ==
    /\ cfgFile = Missing
    /\ lastSaved = ResNone
    /\ probe = NoProbe
    /\ fl = NoFlow

(***************************************************************************)
(* ProcessManager.find_daemons / kill_daemon and the paths of uninstall()  *)
(***************************************************************************)
\* subprocess.run(["ps", "aux"]) can be run
PsWorks == scanTool # "none"

\* find_daemons(): the pids of the listed lines, [] when ps cannot be run
find_daemons == IF PsWorks THEN {p \in Pids : Listed(p)} ELSE {}

\* kill_daemon that reports True whatever os.kill did
kill_daemon_always(p) == TRUE

\* kill_daemon(pid, force): True when os.kill returned, False on
\* ProcessLookupError and PermissionError
kill_daemon(p) == Signallable(p)

\* paths_to_delete of uninstall(), in order: ~/SyftBox, ~/.syftbox (held
\* here by the config file in it), ~/.local/bin/syftbox
Paths == <<"data", "cfg", "bin">>

\* no facade call made
NoFacade ==
    [op |-> "none", stage |-> "idle", force |-> FALSE,
     matched |-> {}, daemons |-> {}, todo |-> {}, signalled |-> {},
     skipped |-> {},
     killed |-> 0, delTodo |-> <<>>, deleted |-> {}, lateSignal |-> FALSE,
     installed |-> FALSE, running |-> FALSE, spawned |-> FALSE,
     ret |-> "None"]

(***************************************************************************)
(* Platform resolution: _utils.py and the older platform.py                *)
(***************************************************************************)
\* what platform.system() and platform.machine() may report
Systems == {"Darwin", "Linux", "Windows", "darwin", "FreeBSD", "Java"}
Machines == {"x86_64", "AMD64", "arm64", "aarch64", "i386", "armv7l"}
Bases == {"https://syftbox.net", "http://localhost:8080"}
PlatformModules == {"_utils", "platform"}

\* str.lower() on the texts above
Lower(x) ==
    CASE x = "Darwin" -> "darwin" [] x = "Linux" -> "linux"
      [] x = "Windows" -> "windows" [] x = "FreeBSD" -> "freebsd"
      [] x = "Java" -> "java" [] x = "AMD64" -> "amd64"
      [] OTHER -> x

PlatformError == [k |-> "PlatformError", os |-> "", arch |-> ""]

\* a get_platform_info that compares the names as reported
get_platform_info_as_is(system, machine) ==
    IF system \notin {"darwin", "linux"} THEN PlatformError
    ELSE IF machine \in {"x86_64", "amd64"}
         THEN [k |-> "ok", os |-> system, arch |-> "amd64"]
    ELSE IF machine \in {"arm64", "aarch64"}
         THEN [k |-> "ok", os |-> system, arch |-> "arm64"]
    ELSE PlatformError

\* get_platform_info(): lower-case both names, map them or raise
get_platform_info(system, machine) ==
    get_platform_info_as_is(Lower(system), Lower(machine))

\* the f-string of get_binary_url, part by part
UrlParts(module, base, os, arch) ==
    IF module = "_utils"
    THEN <<base, "/releases/", "syftbox_client_", os, "_", arch, ".tar.gz">>
    ELSE <<base, "/binaries/", "syftbox-", os, "-", arch, ".tar.gz">>

\* get_binary_url(base_url) of the given module on the given platform
get_binary_url(module, base, system, machine) ==
    LET i == get_platform_info(system, machine)
    IN  IF i.k = "ok"
        THEN [k |-> "url", url |-> UrlParts(module, base, i.os, i.arch)]
        ELSE [k |-> "PlatformError", url |-> <<>>]

\* no pure function called yet
NoPure == [fn |-> "none", module |-> "", a |-> "", b |-> "", c |-> "",
           ret |-> [k |-> "none"]]

\* two tool processes that save to the one config path
Writers == {"w1", "w2"}

\* a process that has not called save()
NoWriter == [stage |-> "idle", cfg |-> NoCfg, overlapped |-> FALSE]

(***************************************************************************)
(* Initial state: ProcessManager.__init__ / Launcher.__init__ on a host    *)
(* with an empty table of interesting processes.                           *)
(***************************************************************************)
NoCall ==
    [op |-> "none", bg |-> TRUE, det |-> FALSE, binAtCall |-> FALSE,
     liveAtCall |-> FALSE, handleAtCall |-> NoProc, handleAtRet |-> NoProc,
     spawned |-> FALSE, ret |-> "None", retPid |-> NoProc,
     termSent |-> FALSE, killSent |-> FALSE, killedDead |-> FALSE,
     termAfterKill |-> FALSE, signalled |-> {}, aliveAtRet |-> FALSE,
     polls |-> 0, interrupted |-> FALSE]

\* everything but the host: no process known, no handle, no call made
InitRest ==
    /\ table = [p \in Pids |-> "free"]
    /\ kind = [p \in Pids |-> "other"]
    /\ nextPid = 1
    /\ pc = [i \in Insts |-> "idle"]
    /\ process = [i \in Insts |-> NoProc]
    /\ op = [i \in Insts |-> "none"]
    /\ bg = [i \in Insts |-> TRUE]
    /\ polls = [i \in Insts |-> 0]
    /\ h = NoCall
    /\ InitStore
    /\ auth = NoAuth
    /\ wr = [w \in Writers |-> NoWriter]
    /\ fc = NoFacade
    /\ dataDir = FALSE
    /\ pure = NoPure
    /\ instance = NoInst
    /\ prog = NoProg

\* one supervisor instance on any host
InitSup ==
    /\ host \in {"unix", "windows"}
    /\ scanTool \in {"pgrep", "ps", "none"}
    /\ variant \in {"pm", "launcher"}
    /\ active = {Obs}
    /\ binaryExists \in BOOLEAN
    /\ InitRest

\* two ProcessManager instances (two tool processes) on one Unix host
InitPair ==
    /\ host = "unix"
    /\ scanTool \in {"pgrep", "ps", "none"}
    /\ variant = "pm"
    /\ active = Insts
    /\ binaryExists = TRUE
    /\ InitRest

\* the history changes only on steps of the observed instance
Hist(i, new) == h' = IF i = Obs THEN new ELSE h

\* the call in progress returns (or raises): back to idle
Idle(i) ==
    /\ pc' = [pc EXCEPT ![i] = "idle"]
    /\ op' = [op EXCEPT ![i] = "none"]
    /\ bg' = [bg EXCEPT ![i] = TRUE]
    /\ polls' = [polls EXCEPT ![i] = 0]

\* the history of a call that returns r (with pid rp when r = "pid") in a
\* state where the table is t and the handle is hd
Returned(hist, r, rp, t, hd) ==
    [hist EXCEPT !.ret = r, !.retPid = rp, !.handleAtRet = hd,
                 !.aliveAtRet = (hd # NoProc /\ AliveIn(t, hd))]

(***************************************************************************)
(* start(config, background)                                               *)
(***************************************************************************)
\* start() without the liveness check
StartDecisionNoCheck(i) ==
    IF ~binaryExists THEN "notfound" ELSE "spawn"

\* start() checking the binary before the liveness scan
StartDecisionBinaryFirst(i) ==
    IF ~binaryExists THEN "notfound"
    ELSE IF is_running(i) THEN "return" ELSE "spawn"

\* the head of start(): liveness check, then binary check
StartDecision(i) ==
    IF is_running(i) THEN "return"
    ELSE IF ~binaryExists THEN "notfound"
    ELSE "spawn"

\* the history at the head of a call o of the observed instance
CallHead(o, b) ==
    [NoCall EXCEPT !.op = o, !.bg = b, !.ret = "pending",
                   !.det = is_running(Obs), !.binAtCall = binaryExists,
                   !.liveAtCall = PollIsNone(Obs),
                   !.handleAtCall = process[Obs]]

\* start(config, background) up to its return or to subprocess.Popen
StartBody(i, b) ==
    /\ pc[i] = "idle"
    /\ UNCHANGED <<hostVars, binaryExists, tableVars, process, polls>>
    /\ CASE StartDecision(i) = "return" ->
              \* ProcessManager: return self.process.pid if self.process else None
              \* Launcher: return
              /\ UNCHANGED <<pc, op, bg>>
              /\ IF variant = "pm" /\ process[i] # NoProc
                 THEN Hist(i, Returned(CallHead("start", b), "pid", process[i],
                                       table, process[i]))
                 ELSE Hist(i, Returned(CallHead("start", b), "None", NoProc,
                                       table, process[i]))
         [] StartDecision(i) = "notfound" ->
              /\ UNCHANGED <<pc, op, bg>>
              /\ Hist(i, Returned(CallHead("start", b), "BinaryNotFoundError",
                                  NoProc, table, process[i]))
         [] OTHER ->
              /\ pc' = [pc EXCEPT ![i] = "popen"]
              /\ op' = [op EXCEPT ![i] = "start"]
              /\ bg' = [bg EXCEPT ![i] = b]
              /\ Hist(i, CallHead("start", b))

\* a caller of the supervisor calls start()
StartCall(i, b) ==
    /\ i \in active
    /\ StartBody(i, b)
    /\ UNCHANGED cfgVars

\* where start() continues once subprocess.Popen(cmd) has returned
AfterPopen(i) == IF bg[i] THEN "bg_sleep" ELSE "fg_wait"

\* subprocess.Popen(cmd) in _run_background / _run_foreground
Popen(i) ==
    /\ pc[i] = "popen"
    /\ UNCHANGED <<cfgVars, hostVars, binaryExists>>
    /\ \/ \* OSError: the exec fails, or the OS has no process id left
          /\ UNCHANGED <<tableVars, process>>
          /\ Idle(i)
          /\ Hist(i, Returned(h, "OSError", NoProc, table, process[i]))
       \/ /\ nextPid <= MaxPid
          /\ table' = [table EXCEPT ![nextPid] = "run"]
          /\ kind' = [kind EXCEPT ![nextPid] = "daemon"]
          /\ nextPid' = nextPid + 1
          /\ process' = [process EXCEPT ![i] = nextPid]
          /\ pc' = [pc EXCEPT ![i] = AfterPopen(i)]
          /\ UNCHANGED <<op, bg, polls>>
          /\ Hist(i, [h EXCEPT !.spawned = TRUE])

\* the Launcher's check after the delay, made on every platform
BgOutcomeChecked(i) == IF PollIsNone(i) THEN "pid" ELSE "RuntimeError"

\* _run_background after Popen: ProcessManager sleeps and polls the child
\* only in its Unix branch; Launcher sleeps and polls on every platform
BgOutcome(i) ==
    IF variant = "pm" /\ host = "windows"
    THEN "pid"
    ELSE IF PollIsNone(i) THEN "pid" ELSE "RuntimeError"

\* time.sleep(..); if self.process.poll() is not None: raise RuntimeError;
\* back in start(): return self.process.pid (ProcessManager), None (Launcher)
BgCheck(i) ==
    /\ pc[i] = "bg_sleep"
    /\ UNCHANGED <<cfgVars, hostVars, binaryExists, tableVars, process>>
    /\ Idle(i)
    /\ IF BgOutcome(i) = "RuntimeError"
       THEN Hist(i, Returned(h, "RuntimeError", NoProc, table, process[i]))
       ELSE IF variant = "pm"
            THEN Hist(i, Returned(h, "pid", process[i], table, process[i]))
            ELSE Hist(i, Returned(h, "None", NoProc, table, process[i]))

(***************************************************************************)
(* ProcessManager.stop()                                                   *)
(***************************************************************************)
\* what a finished stop path hands back: stop()'s own result, or None when
\* it ran inside start()'s KeyboardInterrupt handler
StopResult(o, r) == IF o = "stop" THEN r ELSE "None"

\* the history once Popen.terminate() has been called on the child
TermNoted(hist, pid) ==
    [hist EXCEPT !.termSent = TRUE, !.termAfterKill = hist.killSent,
                 !.signalled = @ \cup {pid}]

\* the history once Popen.kill() has been called on the child after n polls
KillNoted(hist, pid, n) ==
    [hist EXCEPT !.killSent = TRUE, !.killedDead = ~Alive(pid),
                 !.polls = n, !.signalled = @ \cup {pid}]

\* a stop() that signals the handle's pid without polling it first
StopGuardNoPoll(i) == process[i] # NoProc

\* if self.process and self.process.poll() is None
StopGuard(i) == PollIsNone(i)

\* the head of ProcessManager.stop() called as operation o, with history
\* hist so far: guard, then self.process.terminate()
StopHead(i, o, hist) ==
    IF StopGuard(i)
    THEN /\ table' = Terminate(table, process[i])
         /\ pc' = [pc EXCEPT ![i] = "stop_poll"]
         /\ op' = [op EXCEPT ![i] = o]
         /\ UNCHANGED <<bg, polls>>
         /\ Hist(i, TermNoted(hist, process[i]))
    ELSE /\ UNCHANGED table
         /\ Idle(i)
         /\ Hist(i, Returned(hist, StopResult(o, "False"), NoProc, table,
                             process[i]))

\* a loop that runs one iteration too many
LoopDoneOffByOne(n) == n >= PollLimit + 1

\* for _ in range(10): the loop ends after its tenth poll
LoopDone(n) == n >= PollLimit

\* one iteration of the loop: poll(); break if exited, else sleep(0.5)
StopPoll(i) ==
    /\ pc[i] = "stop_poll"
    /\ polls' = [polls EXCEPT ![i] = @ + 1]
    /\ pc' = [pc EXCEPT ![i] = IF ~PollIsNone(i) \/ LoopDone(polls[i] + 1)
                                THEN "stop_final" ELSE "stop_poll"]
    /\ Hist(i, [h EXCEPT !.polls = polls[i] + 1])
    /\ UNCHANGED <<cfgVars, hostVars, binaryExists, tableVars, process, op, bg>>

\* a stop() that never escalates
KillGuardNever(i) == FALSE

\* a stop() that kills whatever the outcome of the polling
KillGuardAlways(i) == process[i] # NoProc

\* if self.process.poll() is None: self.process.kill()
KillGuard(i) == PollIsNone(i)

\* after the loop: force kill if still running; return True
StopFinal(i) ==
    /\ pc[i] = "stop_final"
    /\ UNCHANGED <<cfgVars, hostVars, binaryExists, kind, nextPid, process>>
    /\ Idle(i)
    /\ IF KillGuard(i)
       THEN /\ table' = Kill(table, process[i])
            /\ Hist(i, Returned(KillNoted(h, process[i], polls[i]),
                                StopResult(op[i], "True"), NoProc,
                                table', process[i]))
       ELSE /\ UNCHANGED table
            /\ Hist(i, Returned(h, StopResult(op[i], "True"), NoProc, table,
                                process[i]))

(***************************************************************************)
(* Launcher.stop()                                                         *)
(***************************************************************************)
\* the head of Launcher.stop(): terminate a live child, else go on to pkill
LStopHead(i, o, hist) ==
    /\ op' = [op EXCEPT ![i] = o]
    /\ UNCHANGED <<bg, polls>>
    /\ IF PollIsNone(i)
       THEN /\ table' = Terminate(table, process[i])
            /\ pc' = [pc EXCEPT ![i] = "l_wait"]
            /\ Hist(i, TermNoted(hist, process[i]))
       ELSE /\ UNCHANGED table
            /\ pc' = [pc EXCEPT ![i] = "l_pkill"]
            /\ Hist(i, hist)

\* a stop() that keeps its handle once the child is gone
HandleKept(i) == process[i]

\* self.process = None, once the wait for the child is over
HandleAfterWait(i) == NoProc

\* self.process.wait(timeout=5): returns if the child has exited (then
\* self.process = None), else TimeoutExpired -> self.process.kill()
LWait(i) ==
    /\ pc[i] = "l_wait"
    /\ UNCHANGED <<cfgVars, hostVars, binaryExists, kind, nextPid, op, bg, polls>>
    /\ IF PollIsNone(i)
       THEN /\ table' = Kill(table, process[i])
            /\ pc' = [pc EXCEPT ![i] = "l_wait2"]
            /\ UNCHANGED process
            /\ Hist(i, KillNoted(h, process[i], 0))
       ELSE /\ process' = [process EXCEPT ![i] = HandleAfterWait(i)]
            /\ pc' = [pc EXCEPT ![i] = "l_pkill"]
            /\ UNCHANGED <<table, h>>

\* the second self.process.wait() returns once the killed child is gone;
\* then self.process = None
LWait2(i) ==
    /\ pc[i] = "l_wait2"
    /\ ~PollIsNone(i)
    /\ process' = [process EXCEPT ![i] = HandleAfterWait(i)]
    /\ pc' = [pc EXCEPT ![i] = "l_pkill"]
    /\ UNCHANGED <<cfgVars, hostVars, binaryExists, tableVars, op, bg, polls, h>>

\* pids that pkill -f "syftbox daemon" (or the pgrep + os.kill fallback)
\* signals; both tools come with pgrep, without them nothing is signalled
PkillTargets ==
    IF scanTool = "pgrep" THEN {p \in Pids : Matches(p) /\ Signallable(p)}
    ELSE {}

\* "Also stop any other syftbox daemons"
LPkill(i) ==
    /\ pc[i] = "l_pkill"
    /\ table' = [p \in Pids |-> IF p \in PkillTargets
                                 THEN Terminate(table, p)[p] ELSE table[p]]
    /\ UNCHANGED <<cfgVars, hostVars, binaryExists, kind, nextPid, process>>
    /\ Idle(i)
    /\ Hist(i, Returned([h EXCEPT !.signalled = @ \cup PkillTargets], "None",
                        NoProc, table', process[i]))

(***************************************************************************)
(* stop() as called by the user, and by start()'s KeyboardInterrupt handler*)
(***************************************************************************)
\* the stop path of the supervisor class in use
StopPath(i, o, hist) ==
    IF variant = "pm" THEN StopHead(i, o, hist) ELSE LStopHead(i, o, hist)

StopCall(i) ==
    /\ i \in active
    /\ pc[i] = "idle"
    /\ UNCHANGED <<cfgVars, hostVars, binaryExists, kind, nextPid, process>>
    /\ StopPath(i, "stop", CallHead("stop", TRUE))

\* a _run_foreground that returns right after Popen
FgMayReturnNoWait(i) == TRUE

\* self.process.wait() returns only when the child has exited
FgMayReturn(i) == ~PollIsNone(i)

\* _run_foreground: self.process.wait() returned; start() returns None
FgWait(i) ==
    /\ pc[i] = "fg_wait"
    /\ FgMayReturn(i)
    /\ UNCHANGED <<cfgVars, hostVars, binaryExists, tableVars, process>>
    /\ Idle(i)
    /\ Hist(i, Returned(h, "None", NoProc, table, process[i]))

\* _run_foreground: except KeyboardInterrupt: self.stop()
FgInterrupt(i) ==
    /\ pc[i] = "fg_wait"
    /\ UNCHANGED <<cfgVars, hostVars, binaryExists, kind, nextPid, process>>
    /\ StopPath(i, "start", [h EXCEPT !.interrupted = TRUE])

(***************************************************************************)
(* The environment: processes exit, other parties start processes, the     *)
(* binary is installed or removed.                                         *)
(***************************************************************************)
\* a process exits: on its own, on SIGTERM, or once SIGKILL takes effect
ProcExit(p) ==
    /\ Alive(p)
    /\ table' = [table EXCEPT ![p] = "exited"]
    /\ UNCHANGED <<cfgVars, hostVars, binaryExists, kind, nextPid, instVars, h>>

\* somebody else starts a process: a syftbox daemon or anything else
ExternalSpawn(k) ==
    /\ nextPid <= MaxPid
    /\ table' = [table EXCEPT ![nextPid] = "run"]
    /\ kind' = [kind EXCEPT ![nextPid] = k]
    /\ nextPid' = nextPid + 1
    /\ UNCHANGED <<cfgVars, hostVars, binaryExists, instVars, h>>

\* the binary is installed (download_and_install) or removed (uninstall)
SetBinary(b) ==
    /\ binaryExists # b
    /\ binaryExists' = b
    /\ UNCHANGED <<cfgVars, hostVars, tableVars, instVars, h>>

(***************************************************************************)
(* Config(...).save(), the probes, and whoever else writes the file.       *)
(***************************************************************************)
\* the arguments a caller may pass to Config(...): email is required
ArgChoices(k) ==
    CASE k = "email"         -> {Str("a@b.c"), Str("")}
      [] k = "data_dir"      -> {Absent, PyNone, Str(""), Str("/d")}
      [] k = "server_url"    -> {Absent, Str("https://s")}
      [] k = "client_url"    -> {Absent, Str("http://c")}
      [] OTHER               -> {Absent, Str("tok")}

ConfigArgs ==
    {a \in [Keys -> UNION {ArgChoices(k) : k \in Keys}] :
        \A k \in Keys : a[k] \in ArgChoices(k)}

\* a JSON object with the given members
Obj(e, d, s, c, r, extra) ==
    FileOf("obj",
           [k \in Keys |-> CASE k = "email" -> e [] k = "data_dir" -> d
                             [] k = "server_url" -> s [] k = "client_url" -> c
                             [] OTHER -> r],
           extra)

\* files left by an editor, another tool or an interrupted write
ExternalFiles ==
    {Missing, Truncated, Garbage, NonObject,
     Obj(Absent, Str("/d"), Str("https://s"), Str("http://c"), Str("tok"), FALSE),
     Obj(Str("a@b.c"), Absent, Absent, Absent, Absent, FALSE),
     Obj(Str("a@b.c"), Str("/d"), Str("https://s"), Str("http://c"), Str("tok"), FALSE),
     Obj(Str("a@b.c"), Str("/d"), Str("https://s"), Str("http://c"), Str("tok"), TRUE),
     Obj(JNull, Str("/d"), Str("https://s"), Str("http://c"), Str("tok"), FALSE),
     Obj(Str("a@b.c"), JNull, Str("https://s"), Str("http://c"), Str(""), FALSE),
     Obj(Str("a@b.c"), Str(""), JNull, Str("http://c"), JNull, FALSE)}

\* config = Config(**args); config.save() is entered
SaveCall(args) ==
    /\ fl.flow = "none"
    /\ fl' = [NoFlow EXCEPT !.flow = "save", !.stage = "save_open",
                            !.cfg = MakeConfig(args), !.base = cfgFile,
                            !.result = "pending"]
    /\ probe' = NoProbe
    /\ UNCHANGED <<auxVars, supVars, cfgFile, lastSaved>>

\* a call of a flow returns: the InstallerSession / SimpleInstaller, once
\* it exists, stays around for further calls
Finish(f, fail, result) ==
    [f EXCEPT !.stage = IF f.session THEN "session" ELSE "done",
              !.fail = fail, !.result = result]

\* where the caller of save() goes on when save() has returned:
\* submit_otp sets _installation_complete; submit_otp and step2_verify_otp
\* start the client if asked to; _install is done
AfterSave(f) ==
    IF f.flow = "save" THEN NoFlow
    ELSE LET g == [f EXCEPT !.complete = (f.flow = "submit")]
         IN  IF g.startClient THEN [g EXCEPT !.stage = "start"]
             ELSE Finish(g, "none", "ok")

\* where the caller of save() goes on when save() has raised ConfigError:
\* each flow catches it and reports the failure
AfterSaveError(f) ==
    IF f.flow = "save" THEN NoFlow ELSE Finish(f, "save", "error")

\* self.config_dir.mkdir(...); open(self.config_file, "w"): either raises
\* and leaves the file alone, or the file is created or truncated
SaveOpen ==
    /\ fl.stage = "save_open"
    /\ UNCHANGED <<auxVars, supVars, probe>>
    /\ \/ /\ fl' = AfterSaveError(fl)
          /\ UNCHANGED <<cfgFile, lastSaved>>
       \/ /\ cfgFile' = Truncated
          /\ lastSaved' = ResNone
          /\ fl' = [fl EXCEPT !.stage = "save_dump", !.wrote = TRUE]

\* json.dump(data, f, indent=2) and the close of the file: the document
\* is written into the file in one piece, or the write fails part-way
SaveDump ==
    /\ fl.stage = "save_dump"
    /\ UNCHANGED <<auxVars, supVars, probe>>
    /\ \/ /\ cfgFile' = Landed(Serialize(fl.cfg), cfgFile)
          /\ lastSaved' = IF cfgFile' = Serialize(fl.cfg) THEN ResCfg(fl.cfg)
                          ELSE ResNone
          /\ fl' = AfterSave(fl)
       \/ /\ cfgFile' \in {Truncated, Garbage}
          /\ lastSaved' = ResNone
          /\ fl' = AfterSaveError(fl)

ProbeOps == {"load", "load_legacy", "is_installed", "is_installed_legacy"}

ProbeResult(o, file, bin) ==
    CASE o = "load"         -> Load(file)
      [] o = "load_legacy"  -> LoadLegacy(file)
      [] o = "is_installed" -> IsInstalled(file, bin)
      [] OTHER              -> IsInstalledLegacy(file, bin)

\* Config.load() / load_config() / is_installed, called between the other
\* calls of the single-threaded tool
Probe(o) ==
    /\ fl.flow = "none"
    /\ probe' = [op |-> o, cls |-> FileClass(cfgFile), saved |-> lastSaved,
                 res |-> ProbeResult(o, cfgFile, binaryExists)]
    /\ UNCHANGED <<auxVars, supVars, cfgFile, lastSaved, fl>>

\* the user or another program rewrites the file in place, or removes it
ExternalWrite(file) ==
    /\ file # cfgFile
    /\ cfgFile' = file
    /\ lastSaved' = ResNone
    /\ fl' = IF fl.flow = "none" THEN fl ELSE [fl EXCEPT !.base = file]
    /\ UNCHANGED <<auxVars, supVars, probe>>

(***************************************************************************)
(* The install flows: _SyftBox._install, _SyftBox._run_non_interactive with *)
(* InstallerSession.submit_otp, SimpleInstaller.step1 / step2.             *)
(***************************************************************************)
InstallFlows == {"install", "submit", "step2"}

\* what the users pass as email and type as code
EmailInputs == {PyNone, Str("a@b"), Str("a@b.c")}
OtpInputs == {"", "12345678", " ab12 cd34 ", "1234-678"}

\* a new flow may be entered when no call is in progress
CanBegin == fl.stage \in {"idle", "done", "session"}

\* the order of the steps before the code is checked:
\* _install requests the code first and downloads afterwards,
\* _run_non_interactive and step1 download first and request afterwards
FirstStage(flow) == IF flow = "install" THEN "request" ELSE "download"

AfterRequest(f) ==
    IF f.flow = "install" THEN [f EXCEPT !.stage = "download"]
    ELSE [f EXCEPT !.stage = "session", !.session = TRUE,
                   !.otpRequested = TRUE,
                   !.result = IF f.flow = "step2" THEN "ok" ELSE "none"]

AfterDownload(f) ==
    [f EXCEPT !.stage = IF f.flow = "install" THEN "check_otp" ELSE "request"]

\* a flow is entered with everything of the last one forgotten
NewFlow(flow, e, o, b) ==
    [NoFlow EXCEPT !.flow = flow, !.email = e, !.otp = o, !.startClient = b,
                   !.base = cfgFile, !.result = "pending"]

\* _SyftBox(email).install(): _install up to auth.request_otp. Outside
\* Colab a missing email is an error; in Colab the account's email is
\* detected, or is not
BeginInstall(e, o) ==
    /\ CanBegin
    /\ variant = "pm"
    /\ UNCHANGED <<auxVars, supVars, cfgFile, lastSaved, probe>>
    /\ \E detected \in {PyNone, Str("a@b.c")} :
         LET email == IF e = PyNone THEN detected ELSE e
             f == NewFlow("install", email, o, FALSE)
         IN  fl' = IF validate_email(email)
                   THEN [f EXCEPT !.stage = FirstStage("install")]
                   ELSE Finish(f, "email", "error")

\* _run_non_interactive up to the creation of the directories, when the
\* client is not installed; when it is, the client is started
BeginNonInteractive(e, b) ==
    /\ CanBegin
    /\ variant = "pm"
    /\ UNCHANGED <<auxVars, supVars, cfgFile, lastSaved, probe>>
    /\ LET f == NewFlow("submit", e, "", b)
       IN  IF IsInstalled(cfgFile, binaryExists).k = "true"
           THEN /\ b
                /\ fl' = [f EXCEPT !.stage = "start"]
           ELSE fl' = IF validate_email(e)
                      THEN [f EXCEPT !.stage = FirstStage("submit")]
                      ELSE Finish(f, "email", "error")

\* SimpleInstaller(email): raises on a missing or invalid email
BeginSimple(e) ==
    /\ CanBegin
    /\ variant = "launcher"
    /\ UNCHANGED <<auxVars, supVars, cfgFile, lastSaved, probe>>
    /\ LET f == NewFlow("step2", e, "", FALSE)
       IN  fl' = IF validate_email(e)
                 THEN [f EXCEPT !.stage = "session", !.session = TRUE,
                                !.result = "none"]
                 ELSE Finish(f, "email", "raise")

\* one call on the session: nothing of the last call is kept
NewCall(f, o, b) ==
    [f EXCEPT !.otp = o, !.startClient = b, !.verified = FALSE,
              !.wrote = FALSE, !.base = cfgFile, !.cfg = NoCfg,
              !.fail = "none", !.result = "pending",
              !.tokens = NoTokens, !.remote = NoResp]

\* SimpleInstaller.step1_download_and_request_otp()
Step1Call ==
    /\ fl.flow = "step2" /\ fl.stage = "session"
    /\ fl' = [NewCall(fl, "", FALSE) EXCEPT !.stage = FirstStage("step2")]
    /\ UNCHANGED <<auxVars, supVars, cfgFile, lastSaved, probe>>

\* the directories are made and, if the binary is not there, it is
\* downloaded and installed; _install catches what mkdir raises
Download ==
    /\ fl.stage = "download"
    /\ UNCHANGED <<auxVars, hostVars, tableVars, instVars, h, cfgFile, lastSaved, probe>>
    /\ \/ /\ fl' = Finish(fl, "setup",
                          IF fl.flow = "install" THEN "error" ELSE "raise")
          /\ UNCHANGED binaryExists
       \/ /\ ~binaryExists
          /\ fl' = Finish(fl, "download", "error")
          /\ UNCHANGED binaryExists
       \/ /\ binaryExists' = TRUE
          /\ fl' = AfterDownload(fl)

\* auth.request_otp(email): the code is sent, or the request fails
RequestOtp ==
    /\ fl.stage = "request"
    /\ UNCHANGED <<auxVars, supVars, cfgFile, lastSaved, probe>>
    /\ \E r \in RequestResponses : \E out \in RequestOutcomes(fl.email, r) :
          fl' = IF out.ret = "ok" THEN AfterRequest(fl)
                ELSE Finish(fl, "request", "error")

\* session.submit_otp(otp)
SubmitOtp(o) ==
    /\ fl.flow = "submit" /\ fl.stage = "session"
    /\ fl' = [NewCall(fl, o, fl.startClient) EXCEPT !.stage = "check_otp"]
    /\ UNCHANGED <<auxVars, supVars, cfgFile, lastSaved, probe>>

\* installer.step2_verify_otp(otp, start_client): refused before step 1
\* has had the code sent
Step2Call(o, b) ==
    /\ fl.flow = "step2" /\ fl.stage = "session"
    /\ fl' = IF fl.otpRequested
             THEN [NewCall(fl, o, b) EXCEPT !.stage = "check_otp"]
             ELSE Finish(NewCall(fl, o, b), "order", "error")
    /\ UNCHANGED <<auxVars, supVars, cfgFile, lastSaved, probe>>

\* otp = sanitize_otp(otp); if not validate_otp(otp): report and return
CheckOtp ==
    /\ fl.stage = "check_otp"
    /\ UNCHANGED <<auxVars, supVars, cfgFile, lastSaved, probe>>
    /\ fl' = IF validate_otp(sanitize_otp(fl.otp))
             THEN [fl EXCEPT !.otp = sanitize_otp(fl.otp), !.stage = "verify"]
             ELSE Finish(fl, "otp", "error")

\* a flow that puts the access token into the Config
FlowConfigAccess(f, tokens) ==
    MakeConfig([k \in Keys |->
        CASE k = "email"         -> f.email
          [] k = "data_dir"      -> Str("/d")
          [] k = "server_url"    -> Str(DefaultServer)
          [] k = "client_url"    -> Str(DefaultClient)
          [] OTHER               -> tokens.access_token])

\* the Config the flows build from the tokens: email, str(data_dir), the
\* server, client_url="http://localhost:7938", tokens["refresh_token"]
FlowConfig(f, tokens) ==
    MakeConfig([k \in Keys |->
        CASE k = "email"         -> f.email
          [] k = "data_dir"      -> Str("/d")
          [] k = "server_url"    -> Str(DefaultServer)
          [] k = "client_url"    -> Str(DefaultClient)
          [] OTHER               -> tokens.refresh_token])

\* a flow that goes on to save although verify_otp has raised
AfterVerifyErrorSaves(f) ==
    [f EXCEPT !.stage = "save_open", !.cfg = FlowConfig(f, NoTokens)]

\* verify_otp raises (ValidationError, AuthenticationError): every flow
\* catches it and reports the failure
AfterVerifyError(f) == Finish(f, "verify", "error")

\* tokens = auth.verify_otp(email, otp), then config = Config(...)
VerifyOtp ==
    /\ fl.stage = "verify"
    /\ UNCHANGED <<auxVars, supVars, cfgFile, lastSaved, probe>>
    /\ \E r \in VerifyResponses : \E out \in VerifyOutcomes(fl.email, fl.otp, r) :
          fl' = IF out.ret = "tokens"
                THEN [fl EXCEPT !.verified = TRUE, !.stage = "save_open",
                                !.tokens = out.tokens, !.remote = r,
                                !.cfg = FlowConfig(fl, out.tokens)]
                ELSE AfterVerifyError(fl)

\* the flow starts the client: process_manager.start(config, True) or
\* launcher.start(config, background=True)
FlowStart ==
    /\ fl.stage = "start"
    /\ StartBody(Obs, TRUE)
    /\ fl' = [fl EXCEPT !.stage = "starting"]
    /\ UNCHANGED <<auxVars, cfgFile, lastSaved, probe>>

\* start() has returned or raised; what it raises is caught by submit_otp
\* and step2_verify_otp, and escapes _run_non_interactive
FlowStarted ==
    /\ fl.stage = "starting"
    /\ pc[Obs] = "idle"
    /\ UNCHANGED <<auxVars, supVars, cfgFile, lastSaved, probe>>
    /\ fl' = IF h.ret \in {"BinaryNotFoundError", "OSError", "RuntimeError"}
             THEN Finish(fl, "start", IF fl.session THEN "error" ELSE "raise")
             ELSE Finish(fl, "none", "ok")

(***************************************************************************)
(* Calls of the Authenticator: the checks and the POST, then the answer.   *)
(***************************************************************************)
\* calls made on one Authenticator
MaxCalls == 2

AuthOps == {"request_otp", "verify_otp"}

\* the checks before anything is sent
AuthInputOk(o, e, otp) ==
    IF o = "verify_otp" THEN VerifyInputOk(e, otp) ELSE validate_email(e)

\* request_otp(e) / verify_otp(e, otp) up to self.session.post(...): a
\* ValidationError before anything is sent, or one POST
AuthCall(o, e, otp) ==
    /\ auth.stage = "idle"
    /\ auth.calls < MaxCalls
    /\ o = "request_otp" => otp = ""
    /\ auth' = IF AuthInputOk(o, e, otp)
               THEN [op |-> o, stage |-> "awaiting", email |-> e, otp |-> otp,
                     resp |-> NoResp, sent |-> 1, ret |-> "pending",
                     tokens |-> NoTokens, calls |-> auth.calls + 1,
                     posts |-> auth.posts + 1]
               ELSE [op |-> o, stage |-> "idle", email |-> e, otp |-> otp,
                     resp |-> NoResp, sent |-> 0, ret |-> "ValidationError",
                     tokens |-> NoTokens, calls |-> auth.calls + 1,
                     posts |-> auth.posts]
    /\ UNCHANGED <<supVars, cfgFile, lastSaved, probe, fl, extVars, wr, fc, dataDir>>

\* a call that posts once more when the answer is a failure
AfterReplyRetry(a, r, out) ==
    IF IsError(out.ret) /\ a.sent < 2
    THEN [a EXCEPT !.resp = r, !.sent = a.sent + 1, !.posts = a.posts + 1]
    ELSE [a EXCEPT !.stage = "idle", !.resp = r, !.ret = out.ret,
                   !.tokens = out.tokens]

\* the call returns or raises on the one answer it gets
AfterReply(a, r, out) ==
    [a EXCEPT !.stage = "idle", !.resp = r, !.ret = out.ret,
              !.tokens = out.tokens]

\* the POST is answered, or fails without an answer
AuthReply(r) ==
    /\ auth.stage = "awaiting"
    /\ r \in (IF auth.op = "verify_otp" THEN VerifyResponses
              ELSE RequestResponses)
    /\ \E out \in (IF auth.op = "verify_otp" THEN VerifyReplies(r)
                   ELSE RequestReplies(r)) :
         auth' = AfterReply(auth, r, out)
    /\ UNCHANGED <<supVars, cfgFile, lastSaved, probe, fl, extVars, wr, fc, dataDir>>

(***************************************************************************)
(* Two processes saving to the same path, each with its own file handle.   *)
(***************************************************************************)
\* the other of the two processes
Peer(w) == CHOOSE v \in Writers : v # w

\* a save() is between its call and its return
Saving(w) == wr[w].stage \in {"save_open", "save_dump"}

\* what the two processes pass to Config(): an address, a client URL and a
\* refresh token, the data directory and the server left to their defaults
WriterArgs ==
    {a \in ConfigArgs : a["data_dir"] = Absent /\ a["server_url"] = Absent}

\* process w calls Config(**args).save(); the two saves are interleaved
\* when one is called while the other is in progress
WSaveCall(w, args) ==
    /\ wr[w].stage \in {"idle", "done", "failed"}
    /\ wr' = IF Saving(Peer(w))
             THEN [v \in Writers |->
                     IF v = w THEN [stage |-> "save_open",
                                    cfg |-> MakeConfig(args),
                                    overlapped |-> TRUE]
                     ELSE [wr[v] EXCEPT !.overlapped = TRUE]]
             ELSE [wr EXCEPT ![w] = [stage |-> "save_open",
                                     cfg |-> MakeConfig(args),
                                     overlapped |-> FALSE]]
    /\ UNCHANGED <<supVars, cfgFile, lastSaved, probe, fl, extVars, auth, fc, dataDir>>

\* mkdir and open(self.config_file, "w") in process w
WSaveOpen(w) ==
    /\ wr[w].stage = "save_open"
    /\ UNCHANGED <<supVars, probe, fl, extVars, auth, fc, dataDir>>
    /\ \/ /\ wr' = [wr EXCEPT ![w].stage = "failed"]
          /\ UNCHANGED <<cfgFile, lastSaved>>
       \/ /\ cfgFile' = Truncated
          /\ lastSaved' = ResNone
          /\ wr' = [wr EXCEPT ![w].stage = "save_dump"]

\* json.dump and the close of the file in process w
WSaveDump(w) ==
    /\ wr[w].stage = "save_dump"
    /\ UNCHANGED <<supVars, probe, fl, extVars, auth, fc, dataDir>>
    /\ \/ /\ cfgFile' = Landed(Serialize(wr[w].cfg), cfgFile)
          /\ lastSaved' = IF cfgFile' = Serialize(wr[w].cfg)
                          THEN ResCfg(wr[w].cfg) ELSE ResNone
          /\ wr' = [wr EXCEPT ![w].stage = "done"]
       \/ /\ cfgFile' \in {Truncated, Garbage}
          /\ lastSaved' = ResNone
          /\ wr' = [wr EXCEPT ![w].stage = "failed"]

(***************************************************************************)
(* The facade _SyftBox: kill_all_daemons, stop(all), start_if_stopped,     *)
(* uninstall, called on the instance Obs.                                  *)
(***************************************************************************)
\* no facade call and no supervisor call is in progress on Obs
FacadeIdle == fc.stage \in {"idle", "done"} /\ pc[Obs] = "idle"

\* daemons = self.find_daemons(); killed = 0
Enumerated(o, force) ==
    [NoFacade EXCEPT !.op = o, !.stage = "kill", !.force = force,
                     !.matched = {p \in Pids : Matches(p)},
                     !.daemons = find_daemons, !.todo = find_daemons,
                     !.ret = "pending"]

\* the first of the enumerated processes not handled yet
NextDaemon(S) == CHOOSE p \in S : \A q \in S : p <= q

\* ProcessManager.kill_all_daemons(force) called directly
KillAllCall(force) ==
    /\ FacadeIdle
    /\ fc' = Enumerated("kill_all", force)
    /\ h' = NoCall
    /\ UNCHANGED <<hostVars, binaryExists, tableVars, instVars,
                   cfgFile, lastSaved, probe, fl, extVars, auth, wr, dataDir>>

\* _SyftBox.stop(all=True): self._process_manager.kill_all_daemons()
StopAllCall ==
    /\ FacadeIdle
    /\ fc' = Enumerated("stop_all", FALSE)
    /\ h' = NoCall
    /\ UNCHANGED <<hostVars, binaryExists, tableVars, instVars,
                   cfgFile, lastSaved, probe, fl, extVars, auth, wr, dataDir>>

\* _SyftBox.stop(all=False): self._process_manager.stop()
StopOneCall ==
    /\ FacadeIdle
    /\ fc' = NoFacade
    /\ UNCHANGED <<hostVars, binaryExists, kind, nextPid, process,
                   cfgFile, lastSaved, probe, fl, extVars, auth, wr, dataDir>>
    /\ StopPath(Obs, "stop", CallHead("stop", TRUE))

\* the start() that _SyftBox.run() ends with
RunStart ==
    /\ FacadeIdle
    /\ fc' = NoFacade
    /\ UNCHANGED <<cfgFile, lastSaved, probe, fl, extVars, auth, wr, dataDir>>
    /\ StartBody(Obs, TRUE)

\* one iteration of the loop of kill_all_daemons: kill_daemon(daemon['pid'])
KillNext ==
    /\ fc.stage = "kill"
    /\ fc.todo # {}
    /\ LET p == NextDaemon(fc.todo)
       IN  IF kill_daemon(p)
           THEN /\ table' = IF fc.force THEN Kill(table, p)
                            ELSE Terminate(table, p)
                /\ fc' = [fc EXCEPT !.todo = @ \ {p},
                                    !.signalled = @ \cup {p},
                                    !.killed = @ + 1,
                                    !.lateSignal = @ \/ (fc.deleted # {})]
           ELSE /\ UNCHANGED table
                /\ fc' = [fc EXCEPT !.todo = @ \ {p},
                                    !.skipped = @ \cup {p}]
    /\ UNCHANGED <<hostVars, binaryExists, kind, nextPid, instVars, h,
                   cfgFile, lastSaved, probe, fl, extVars, auth, wr, dataDir>>

\* the loop is over: return killed; uninstall() goes on to the paths
KillDone ==
    /\ fc.stage = "kill"
    /\ fc.todo = {}
    /\ fc' = IF fc.op = "uninstall"
             THEN [fc EXCEPT !.stage = "delete", !.delTodo = Paths]
             ELSE [fc EXCEPT !.stage = "done",
                             !.ret = IF fc.op = "kill_all" THEN "count"
                                     ELSE "None"]
    /\ UNCHANGED <<supVars, cfgFile, lastSaved, probe, fl, extVars, auth, wr, dataDir>>

\* _SyftBox.uninstall(confirm): answer is what show_uninstall_warning()
\* returns when it is asked
UninstallCall(confirm, answer) ==
    /\ FacadeIdle
    /\ fc' = IF confirm /\ ~answer
             THEN [NoFacade EXCEPT !.op = "uninstall", !.stage = "done",
                                   !.ret = "cancelled"]
             ELSE Enumerated("uninstall", FALSE)
    /\ h' = NoCall
    /\ UNCHANGED <<hostVars, binaryExists, tableVars, instVars,
                   cfgFile, lastSaved, probe, fl, extVars, auth, wr, dataDir>>

\* path.exists()
PathExists(x) ==
    CASE x = "data" -> dataDir
      [] x = "cfg"  -> cfgFile # Missing
      [] OTHER      -> binaryExists

\* one iteration of the loop over paths_to_delete: if the path exists,
\* shutil.rmtree / unlink, and any exception is passed over
DeleteNext ==
    /\ fc.stage = "delete"
    /\ fc.delTodo # <<>>
    /\ UNCHANGED <<hostVars, tableVars, instVars, h, probe, fl, extVars, auth, wr>>
    /\ LET x == Head(fc.delTodo)
       IN  \/ \* the path is not there, or the deletion fails
              /\ fc' = [fc EXCEPT !.delTodo = Tail(@)]
              /\ UNCHANGED <<dataDir, cfgFile, lastSaved, binaryExists>>
           \/ /\ PathExists(x)
              /\ fc' = [fc EXCEPT !.delTodo = Tail(@), !.deleted = @ \cup {x}]
              /\ dataDir' = IF x = "data" THEN FALSE ELSE dataDir
              /\ cfgFile' = IF x = "cfg" THEN Missing ELSE cfgFile
              /\ lastSaved' = IF x = "cfg" THEN ResNone ELSE lastSaved
              /\ binaryExists' = IF x = "bin" THEN FALSE ELSE binaryExists

\* display.show_uninstall_progress(); uninstall() returns
UninstallReturn ==
    /\ fc.stage = "delete"
    /\ fc.delTodo = <<>>
    /\ fc' = [fc EXCEPT !.stage = "done", !.ret = "None"]
    /\ UNCHANGED <<supVars, cfgFile, lastSaved, probe, fl, extVars, auth, wr, dataDir>>

\* _SyftBox.start_if_stopped up to its early returns: not installed, or
\* already running
StartIfStoppedCall ==
    /\ FacadeIdle
    /\ LET inst == IsInstalled(cfgFile, binaryExists).k = "true"
           run == is_running(Obs)
           f == [NoFacade EXCEPT !.op = "start_if_stopped",
                                 !.installed = inst, !.running = run]
       IN  fc' = IF ~inst \/ run
                 THEN [f EXCEPT !.stage = "done", !.ret = "False"]
                 ELSE [f EXCEPT !.stage = "start", !.ret = "pending"]
    /\ h' = NoCall
    /\ UNCHANGED <<hostVars, binaryExists, tableVars, instVars,
                   cfgFile, lastSaved, probe, fl, extVars, auth, wr, dataDir>>

\* config = self.config; self._process_manager.start(config, background=True):
\* with config None the liveness check of start() still comes first, and
\* config.binary_path then raises AttributeError
StartIfStoppedStart ==
    /\ fc.stage = "start"
    /\ UNCHANGED <<cfgFile, lastSaved, probe, fl, extVars, auth, wr, dataDir>>
    /\ IF Load(cfgFile).k # "config" /\ ~is_running(Obs)
       THEN /\ fc' = [fc EXCEPT !.stage = "done", !.ret = "AttributeError"]
            /\ UNCHANGED supVars
       ELSE /\ StartBody(Obs, TRUE)
            /\ fc' = [fc EXCEPT !.stage = "wait"]

\* start() has returned: print, return True; or start() has raised
StartIfStoppedReturn ==
    /\ fc.stage = "wait"
    /\ pc[Obs] = "idle"
    /\ fc' = [fc EXCEPT !.stage = "done", !.spawned = h.spawned,
                        !.ret = IF h.ret \in {"pid", "None"} THEN "True"
                                ELSE h.ret]
    /\ UNCHANGED <<supVars, cfgFile, lastSaved, probe, fl, extVars, auth, wr, dataDir>>

\* an install creates the data directory: self.data_dir.mkdir(parents=True)
MakeDataDir ==
    /\ ~dataDir
    /\ dataDir' = TRUE
    /\ UNCHANGED <<supVars, cfgFile, lastSaved, probe, fl, extVars, auth, wr, fc>>

(***************************************************************************)
(* Calls of the pure functions.                                            *)
(***************************************************************************)
\* get_binary_url(base) of one of the two modules, on some platform
BinaryUrlCall(module, base, system, machine) ==
    /\ pure' = [fn |-> "get_binary_url", module |-> module, a |-> base,
                b |-> system, c |-> machine,
                ret |-> get_binary_url(module, base, system, machine)]
    /\ UNCHANGED <<supVars, cfgFile, lastSaved, probe, fl, auth, wr, fc, dataDir,
                   instance, prog>>

\* the texts typed as a code
OtpTexts ==
    {"", "12345678", "AB12CD34", " ab12 cd34 ", "1234", "1234-678",
     "ABCD1234", "ABCD123", "ABCD12345", "ABCD-123", "ABCD 234", "AAAAAAAA",
     "abcd1234", "aBcD1234", "ab cd 12 34", "a b c d 1 2 3 4", " ABCD1234 ",
     "   ", "ab\tcd1234", "AB\tCD1234", "ABCD234"}

\* a result that is a text, a result that is a bool
RetText(x) == [k |-> "text", v |-> x]
RetBool(b) == [k |-> "bool", v |-> b]

\* sanitize_otp(x)
SanitizeCall(x) ==
    /\ pure' = [NoPure EXCEPT !.fn = "sanitize_otp", !.a = x,
                              !.ret = RetText(sanitize_otp(x))]
    /\ UNCHANGED <<supVars, cfgFile, lastSaved, probe, fl, auth, wr, fc, dataDir,
                   instance, prog>>

\* validate_otp(x)
ValidateCall(x) ==
    /\ pure' = [NoPure EXCEPT !.fn = "validate_otp", !.a = x,
                              !.ret = RetBool(validate_otp(x))]
    /\ UNCHANGED <<supVars, cfgFile, lastSaved, probe, fl, auth, wr, fc, dataDir,
                   instance, prog>>

\* otp = sanitize_otp(x); validate_otp(otp), as the callers do; b keeps the
\* sanitized text
SanitizeValidateCall(x) ==
    /\ pure' = [NoPure EXCEPT !.fn = "sanitize_validate", !.a = x,
                              !.b = sanitize_otp(x),
                              !.ret = RetBool(validate_otp(sanitize_otp(x)))]
    /\ UNCHANGED <<supVars, cfgFile, lastSaved, probe, fl, auth, wr, fc, dataDir,
                   instance, prog>>

(***************************************************************************)
(* The module-level API of _syftbox.py on a host where SyftBox is          *)
(* installed: each function fetches the _SyftBox of the module first.      *)
(***************************************************************************)
\* _SyftBox(**kwargs): an object not built before, with its own
\* _ProcessManager
NewInstance(cur) == IF cur = NoInst THEN Obs ELSE Other

\* _get_instance(**kwargs): if _instance is None or kwargs: a new _SyftBox
get_instance(cur, kwargs) ==
    IF cur = NoInst \/ kwargs THEN NewInstance(cur) ELSE cur

\* the module's functions are called one after the other from one thread;
\* the model has objects for two _SyftBox
ApiIdle(kwargs) ==
    /\ \A i \in Insts : pc[i] = "idle"
    /\ fc.stage = "idle" /\ fl.flow = "none"
    /\ kwargs => instance # Other

\* instance.is_installed
ApiInstalled == IsInstalled(cfgFile, binaryExists).k = "true"

\* install(email): without an email outside Colab it returns at once;
\* instance = _get_instance(email=email); installed: "already installed"
ApiInstall(e) ==
    /\ ApiIdle(e # PyNone)
    /\ ApiInstalled
    /\ instance' = IF e = PyNone THEN instance ELSE get_instance(instance, TRUE)
    /\ UNCHANGED <<supVars, cfgFile, lastSaved, probe, fl, auth, wr, fc, dataDir,
                   pure, prog>>

\* install_and_run_if_needed(email, background): instance =
\* _get_instance(email=email), email=None included; instance.run(background)
\* on an installed host ends with _process_manager.start
ApiInstallAndRun(e, b) ==
    /\ ApiIdle(TRUE)
    /\ ApiInstalled
    /\ instance' = get_instance(instance, TRUE)
    /\ IF is_running(instance')
       THEN UNCHANGED supVars
       ELSE StartBody(instance', b)
    /\ UNCHANGED <<cfgFile, lastSaved, probe, fl, auth, wr, fc, dataDir, pure, prog>>

\* run(background): instance = _get_instance(); not installed: False;
\* running: True; else instance._process_manager.start(config, background)
ApiRun(b) ==
    /\ ApiIdle(FALSE)
    /\ instance' = get_instance(instance, FALSE)
    /\ IF ~ApiInstalled \/ is_running(instance')
       THEN UNCHANGED supVars
       ELSE StartBody(instance', b)
    /\ UNCHANGED <<cfgFile, lastSaved, probe, fl, auth, wr, fc, dataDir, pure, prog>>

\* stop(): _get_instance().stop(False), that is _process_manager.stop()
ApiStop ==
    /\ ApiIdle(FALSE)
    /\ instance' = get_instance(instance, FALSE)
    /\ StopPath(instance', "stop", CallHead("stop", TRUE))
    /\ UNCHANGED <<hostVars, binaryExists, kind, nextPid, process,
                   cfgFile, lastSaved, probe, fl, auth, wr, fc, dataDir, pure, prog>>

\* status(): _get_instance().status(detailed) reads and prints
ApiStatus ==
    /\ ApiIdle(FALSE)
    /\ instance' = get_instance(instance, FALSE)
    /\ UNCHANGED <<supVars, cfgFile, lastSaved, probe, fl, auth, wr, fc, dataDir,
                   pure, prog>>

(***************************************************************************)
(* ProgrammaticInstaller: __init__, install_step1_request_otp and          *)
(* install_step2_verify_otp, with what HybridInstaller and InstallerV2     *)
(* give it.                                                                *)
(***************************************************************************)
\* the methods that ProgrammaticInstaller, HybridInstaller and InstallerV2
\* define
InstallerMethods ==
    {"install_step1_request_otp", "install_step2_verify_otp",
     "get_otp_status", "install", "authenticate", "request_otp",
     "verify_otp", "start_client", "stop_client", "_programmatic_login",
     "_run_login", "_download_binary", "_setup", "_install_apps",
     "_prompt_start_client", "_start_client", "_is_client_running",
     "_add_to_path", "_uninstall_old_versions", "_debug"}

\* self.<m> can be looked up on a ProgrammaticInstaller
HasMethod(m) == m \in InstallerMethods

\* ProgrammaticInstaller(email): ValueError without an email
ProgNew(e) ==
    /\ ~prog.built /\ fl.flow = "none"
    /\ prog' = IF e = PyNone THEN [NoProg EXCEPT !.op = "init", !.ret = "ValueError"]
               ELSE [NoProg EXCEPT !.built = TRUE, !.email = e, !.op = "init",
                                   !.ret = "None"]
    /\ UNCHANGED <<supVars, cfgFile, lastSaved, probe, fl, auth, wr, fc, dataDir,
                   pure, instance>>

\* install_step1_request_otp(): self.download_binary(),
\* self.setup_environment(), self.request_otp(), then the two flags
ProgStep1 ==
    /\ prog.built
    /\ UNCHANGED <<hostVars, tableVars, instVars, h, cfgFile, lastSaved, probe,
                   fl, auth, wr, fc, dataDir, pure, instance>>
    /\ LET call == [prog EXCEPT !.op = "step1", !.sent = FALSE, !.wrote = FALSE,
                                !.doneBefore = prog.verified]
       IN  IF ~HasMethod("download_binary")
           THEN /\ prog' = [call EXCEPT !.ret = "AttributeError"]
                /\ UNCHANGED binaryExists
           ELSE \/ /\ prog' = [call EXCEPT !.ret = "DownloadError"]
                   /\ UNCHANGED binaryExists
                \/ /\ binaryExists' = TRUE
                   /\ IF ~HasMethod("setup_environment")
                      THEN prog' = [call EXCEPT !.ret = "AttributeError"]
                      ELSE \E r \in RequestResponses :
                           \E out \in RequestOutcomes(prog.email, r) :
                             prog' = IF out.ret = "ok"
                                     THEN [call EXCEPT !.otpRequested = TRUE,
                                                       !.waiting = TRUE,
                                                       !.ret = "None"]
                                     ELSE [call EXCEPT !.ret = out.ret]

\* HybridInstaller.verify_otp(otp) and what follows it in step 2:
\* auth.verify_otp, Config(...).save(), _waiting_for_otp = False,
\* start_client(background=True) when asked to
ProgVerify(call, otp, b) ==
    \E r \in VerifyResponses : \E out \in VerifyOutcomes(call.email, otp, r) :
      IF out.ret # "tokens"
      THEN /\ prog' = [call EXCEPT !.sent = (out.ret # "ValidationError"),
                                   !.ret = out.ret]
           /\ UNCHANGED <<cfgFile, lastSaved, tableVars>>
      ELSE \/ /\ cfgFile' \in {cfgFile, Truncated, Garbage}
              /\ lastSaved' = IF cfgFile' = cfgFile THEN lastSaved ELSE ResNone
              /\ prog' = [call EXCEPT !.sent = TRUE, !.ret = "ConfigError",
                                      !.wrote = (cfgFile' # cfgFile)]
              /\ UNCHANGED tableVars
           \/ /\ cfgFile' = Serialize(FlowConfig(call, out.tokens))
              /\ lastSaved' = ResCfg(FlowConfig(call, out.tokens))
              /\ \/ /\ b
                    /\ prog' = [call EXCEPT !.sent = TRUE, !.wrote = TRUE,
                                            !.waiting = FALSE, !.ret = "OSError"]
                    /\ UNCHANGED tableVars
                 \/ /\ b => nextPid <= MaxPid
                    /\ prog' = [call EXCEPT !.sent = TRUE, !.wrote = TRUE,
                                            !.waiting = FALSE, !.verified = TRUE,
                                            !.ret = "None"]
                    /\ IF b
                       THEN /\ table' = [table EXCEPT ![nextPid] = "run"]
                            /\ kind' = [kind EXCEPT ![nextPid] = "tool"]
                            /\ nextPid' = nextPid + 1
                       ELSE UNCHANGED tableVars

\* install_step2_verify_otp(otp, start_client)
ProgStep2(o, b) ==
    /\ prog.built
    /\ UNCHANGED <<hostVars, binaryExists, instVars, h, probe, fl, auth, wr, fc,
                   dataDir, pure, instance>>
    /\ LET call == [prog EXCEPT !.op = "step2", !.sent = FALSE, !.wrote = FALSE,
                                !.doneBefore = prog.verified]
       IN  IF ~prog.otpRequested \/ ~prog.waiting
           THEN /\ prog' = [call EXCEPT !.ret = "ValueError"]
                /\ UNCHANGED <<cfgFile, lastSaved, tableVars>>
           ELSE IF ~validate_otp(sanitize_otp(o))
           THEN /\ prog' = [call EXCEPT !.ret = "ValidationError"]
                /\ UNCHANGED <<cfgFile, lastSaved, tableVars>>
           ELSE ProgVerify(call, sanitize_otp(o), b)

NextSup ==
    \/ \E i \in Insts, b \in BOOLEAN : StartCall(i, b)
    \/ \E i \in Insts : Popen(i)
    \/ \E i \in Insts : BgCheck(i)
    \/ \E i \in Insts : FgWait(i)
    \/ \E i \in Insts : FgInterrupt(i)
    \/ \E i \in Insts : StopCall(i)
    \/ \E i \in Insts : StopPoll(i)
    \/ \E i \in Insts : StopFinal(i)
    \/ \E i \in Insts : LWait(i)
    \/ \E i \in Insts : LWait2(i)
    \/ \E i \in Insts : LPkill(i)
    \/ \E p \in Pids : ProcExit(p)
    \/ \E k \in {"daemon", "other"} : ExternalSpawn(k)
    \/ \E b \in BOOLEAN : SetBinary(b)

\* the calls of the instances and the processes of the host, binary in place
NextPair ==
    \/ \E i \in Insts, b \in BOOLEAN : StartCall(i, b)
    \/ \E i \in Insts : Popen(i)
    \/ \E i \in Insts : BgCheck(i)
    \/ \E i \in Insts : FgWait(i)
    \/ \E p \in Pids : ProcExit(p)
    \/ \E k \in {"daemon", "other"} : ExternalSpawn(k)

Init == InitSup

Next == NextSup

Spec == Init /\ [][Next]_vars

\* two instances racing on one host
SpecPair == InitPair /\ [][NextPair]_vars

\* a Unix host on which the supervisor is the ProcessManager, whose stop()
\* does not look at the platform
InitStop == InitSup /\ variant = "pm" /\ host = "unix"

\* the ProcessManager's calls and the host around them
NextStop ==
    \/ \E i \in Insts, b \in BOOLEAN : StartCall(i, b)
    \/ \E i \in Insts : Popen(i)
    \/ \E i \in Insts : BgCheck(i)
    \/ \E i \in Insts : FgWait(i)
    \/ \E i \in Insts : FgInterrupt(i)
    \/ \E i \in Insts : StopCall(i)
    \/ \E i \in Insts : StopPoll(i)
    \/ \E i \in Insts : StopFinal(i)
    \/ \E p \in Pids : ProcExit(p)
    \/ \E k \in {"daemon", "other"} : ExternalSpawn(k)
    \/ \E b \in BOOLEAN : SetBinary(b)

\* the stop path is straight-line code around bounded sleeps: each of its
\* steps is taken once it is enabled
FairSpec ==
    /\ InitStop /\ [][NextStop]_vars
    /\ \A i \in Insts : WF_vars(StopPoll(i)) /\ WF_vars(StopFinal(i))

\* a host on which the store is used: nobody calls the supervisor
InitCfg ==
    /\ host = "unix"
    /\ scanTool = "pgrep"
    /\ variant = "pm"
    /\ active = {}
    /\ binaryExists \in BOOLEAN
    /\ InitRest

NextCfg ==
    \/ \E a \in ConfigArgs : SaveCall(a)
    \/ SaveOpen
    \/ SaveDump
    \/ \E o \in ProbeOps : Probe(o)
    \/ \E f \in ExternalFiles : ExternalWrite(f)
    \/ \E b \in BOOLEAN : SetBinary(b)

\* the configuration store on its own
SpecCfg == InitCfg /\ [][NextCfg]_vars

\* a Unix host on which the flows run; only they call the supervisor
InitInstall ==
    /\ host = "unix"
    /\ scanTool = "pgrep"
    /\ variant \in {"pm", "launcher"}
    /\ active = {}
    /\ binaryExists \in BOOLEAN
    /\ InitRest

\* the files somebody else leaves while a flow runs
InstallFiles ==
    {Missing, Garbage,
     Obj(Str("a@b.c"), Str("/d"), Str("https://s"), Str("http://c"), Str("old"), FALSE)}

NextInstall ==
    \/ \E e \in EmailInputs, o \in OtpInputs : BeginInstall(e, o)
    \/ \E e \in EmailInputs, b \in BOOLEAN : BeginNonInteractive(e, b)
    \/ \E e \in EmailInputs : BeginSimple(e)
    \/ Step1Call
    \/ Download
    \/ RequestOtp
    \/ \E o \in OtpInputs : SubmitOtp(o)
    \/ \E o \in OtpInputs, b \in BOOLEAN : Step2Call(o, b)
    \/ CheckOtp
    \/ VerifyOtp
    \/ SaveOpen
    \/ SaveDump
    \/ FlowStart
    \/ Popen(Obs)
    \/ BgCheck(Obs)
    \/ FlowStarted
    \/ \E p \in Pids : ProcExit(p)
    \/ \E f \in InstallFiles : ExternalWrite(f)
    \/ SetBinary(FALSE)

\* the install flows, the store and the supervisor they drive
SpecInstall == InitInstall /\ [][NextInstall]_vars

\* a host on which only the Authenticator is used
InitAuth ==
    /\ host = "unix"
    /\ scanTool = "pgrep"
    /\ variant = "pm"
    /\ active = {}
    /\ binaryExists \in BOOLEAN
    /\ InitRest

NextAuth ==
    \/ \E o \in AuthOps, e \in EmailInputs, otp \in OtpInputs : AuthCall(o, e, otp)
    \/ \E r \in VerifyResponses \cup RequestResponses : AuthReply(r)

\* the Authenticator on its own
SpecAuth == InitAuth /\ [][NextAuth]_vars

NextWriters ==
    \/ \E w \in Writers, a \in WriterArgs : WSaveCall(w, a)
    \/ \E w \in Writers : WSaveOpen(w)
    \/ \E w \in Writers : WSaveDump(w)

\* two processes that save, on a host where nothing else happens
SpecWriters == InitAuth /\ [][NextWriters]_vars

\* a Unix host with either supervisor class, the binary in place
InitKill ==
    /\ host = "unix"
    /\ scanTool \in {"pgrep", "none"}
    /\ variant \in {"pm", "launcher"}
    /\ active = {Obs}
    /\ binaryExists = TRUE
    /\ InitRest

NextKill ==
    \/ \E f \in BOOLEAN : KillAllCall(f)
    \/ StopAllCall
    \/ StopOneCall
    \/ KillNext
    \/ KillDone
    \/ RunStart
    \/ Popen(Obs)
    \/ BgCheck(Obs)
    \/ StopPoll(Obs)
    \/ StopFinal(Obs)
    \/ LWait(Obs)
    \/ LWait2(Obs)
    \/ LPkill(Obs)
    \/ \E p \in Pids : ProcExit(p)
    \/ \E k \in {"daemon", "foreign"} : ExternalSpawn(k)

\* stop(all) and kill_all_daemons of one instance among other processes
SpecKill == InitKill /\ [][NextKill]_vars

\* the configuration an earlier install has left
InstalledFile ==
    Obj(Str("a@b.c"), Str("/d"), Str("https://s"), Str("http://c"), Str("old"), FALSE)

\* a Unix host with ProcessManager on which SyftBox is installed or not
InitFacade ==
    /\ host = "unix"
    /\ scanTool \in {"pgrep", "none"}
    /\ variant = "pm"
    /\ active = {Obs}
    /\ binaryExists \in BOOLEAN
    /\ InitRest

\* a Unix host with its usual tools, SyftBox installed or not
InitUninstall ==
    /\ host = "unix"
    /\ scanTool = "pgrep"
    /\ variant = "pm"
    /\ active = {Obs}
    /\ binaryExists \in BOOLEAN
    /\ InitRest

NextUninstall ==
    \/ \E c \in BOOLEAN, a \in BOOLEAN : UninstallCall(c, a)
    \/ KillNext
    \/ KillDone
    \/ DeleteNext
    \/ UninstallReturn
    \/ MakeDataDir
    \/ ExternalWrite(InstalledFile)
    \/ SetBinary(TRUE)
    \/ \E p \in Pids : ProcExit(p)
    \/ \E k \in {"daemon", "tool"} : ExternalSpawn(k)

\* uninstall() on a host where daemons run
SpecUninstall == InitUninstall /\ [][NextUninstall]_vars

NextStartIf ==
    \/ StartIfStoppedCall
    \/ StartIfStoppedStart
    \/ StartIfStoppedReturn
    \/ Popen(Obs)
    \/ BgCheck(Obs)
    \/ \E f \in {InstalledFile, Missing} : ExternalWrite(f)
    \/ \E b \in BOOLEAN : SetBinary(b)
    \/ \E p \in Pids : ProcExit(p)
    \/ ExternalSpawn("daemon")

\* start_if_stopped() while other starters run
SpecStartIf == InitFacade /\ [][NextStartIf]_vars

\* a Unix host on which nothing is started through the supervisor
InitDetect ==
    /\ host = "unix"
    /\ scanTool \in {"pgrep", "ps", "none"}
    /\ variant = "pm"
    /\ active = {Obs}
    /\ binaryExists = TRUE
    /\ InitRest

NextDetect ==
    \/ \E f \in BOOLEAN : KillAllCall(f)
    \/ KillNext
    \/ KillDone
    \/ \E p \in Pids : ProcExit(p)
    \/ \E k \in {"daemon", "foreign", "tool", "other"} : ExternalSpawn(k)

\* the two scans and kill_all_daemons among the processes of the host
SpecDetect == InitDetect /\ [][NextDetect]_vars

NextPlatform ==
    \E m \in PlatformModules, b \in Bases, x \in Systems, y \in Machines :
        BinaryUrlCall(m, b, x, y)

\* platform resolution on every platform
SpecPlatform == InitAuth /\ [][NextPlatform]_vars

NextOtp ==
    \/ \E x \in OtpTexts : SanitizeCall(x)
    \/ \E x \in OtpTexts : ValidateCall(x)
    \/ \E x \in OtpTexts : SanitizeValidateCall(x)

\* the two OTP functions on what users type
SpecOtp == InitAuth /\ [][NextOtp]_vars

\* a Unix host on which SyftBox is installed and the module is imported
InitShared ==
    /\ host = "unix"
    /\ scanTool \in {"pgrep", "none"}
    /\ variant = "pm"
    /\ active = Insts
    /\ binaryExists = TRUE
    /\ table = [p \in Pids |-> "free"]
    /\ kind = [p \in Pids |-> "other"]
    /\ nextPid = 1
    /\ pc = [i \in Insts |-> "idle"]
    /\ process = [i \in Insts |-> NoProc]
    /\ op = [i \in Insts |-> "none"]
    /\ bg = [i \in Insts |-> TRUE]
    /\ polls = [i \in Insts |-> 0]
    /\ h = NoCall
    /\ cfgFile = InstalledFile
    /\ lastSaved = ResNone
    /\ probe = NoProbe
    /\ fl = NoFlow
    /\ auth = NoAuth
    /\ wr = [w \in Writers |-> NoWriter]
    /\ fc = NoFacade
    /\ dataDir = FALSE
    /\ pure = NoPure
    /\ instance = NoInst
    /\ prog = NoProg

NextShared ==
    \/ \E e \in {PyNone, Str("a@b.c")} : ApiInstall(e)
    \/ \E e \in {PyNone, Str("a@b.c")}, b \in BOOLEAN : ApiInstallAndRun(e, b)
    \/ \E b \in BOOLEAN : ApiRun(b)
    \/ ApiStop
    \/ ApiStatus
    \/ \E i \in Insts : Popen(i)
    \/ \E i \in Insts : BgCheck(i)
    \/ \E i \in Insts : FgWait(i)
    \/ \E i \in Insts : StopPoll(i)
    \/ \E i \in Insts : StopFinal(i)
    \/ \E p \in Pids : ProcExit(p)
    \/ ExternalSpawn("daemon")

\* the module-level API called again and again
SpecShared == InitShared /\ [][NextShared]_vars

\* a Unix host on which the two-step installers are used
InitTwoStep ==
    /\ host = "unix"
    /\ scanTool = "pgrep"
    /\ variant = "launcher"
    /\ active = {}
    /\ binaryExists \in BOOLEAN
    /\ InitRest

NextTwoStep ==
    \/ \E e \in EmailInputs : BeginSimple(e)
    \/ Step1Call
    \/ Download
    \/ RequestOtp
    \/ \E o \in OtpInputs, b \in BOOLEAN : Step2Call(o, b)
    \/ CheckOtp
    \/ VerifyOtp
    \/ SaveOpen
    \/ SaveDump
    \/ FlowStart
    \/ Popen(Obs)
    \/ BgCheck(Obs)
    \/ FlowStarted
    \/ \E p \in Pids : ProcExit(p)
    \/ \E e \in EmailInputs : ProgNew(e)
    \/ ProgStep1
    \/ \E o \in OtpInputs, b \in BOOLEAN : ProgStep2(o, b)

\* SimpleInstaller and ProgrammaticInstaller called step by step
SpecTwoStep == InitTwoStep /\ [][NextTwoStep]_vars

(***************************************************************************)
(* Claims about the process supervisor.                                    *)
(***************************************************************************)
\* the observed call has returned or raised
Done == h.op # "none" /\ h.ret # "pending"

\* C1: whenever the liveness scan detects a matching daemon at the head of
\* start(), that call spawns nothing, leaves the handle alone and has
\* returned at once without an error.
C1_StartIdempotent ==
    (h.op = "start" /\ h.det) =>
        /\ pc[Obs] = "idle"
        /\ h.ret \in {"pid", "None"}
        /\ ~h.spawned
        /\ process[Obs] = h.handleAtCall

\* a second start() found the daemon of the first one alive: one spawn in all
C1_Witness ==
    /\ h.op = "start" /\ h.det /\ h.liveAtCall /\ ~h.spawned
    /\ h.ret \in {"pid", "None"}
    /\ nextPid = 2

C3_StopEscalation ==
    /\ [](variant = "pm" =>
            /\ (h.op = "stop" /\ h.liveAtCall) => h.termSent
            /\ h.polls <= PollLimit /\ polls[Obs] <= PollLimit
            /\ h.killSent => /\ h.termSent /\ ~h.termAfterKill
                             /\ ~h.killedDead
                             /\ h.polls = PollLimit)
    /\ (pc[Obs] \in {"stop_poll", "stop_final"}) ~> (pc[Obs] = "idle")

\* stop() on a live child that did not exit within the polls: escalated
C3_Witness ==
    /\ variant = "pm" /\ h.op = "stop" /\ h.liveAtCall
    /\ h.killSent /\ h.ret = "True"

C5_BinaryNotFound ==
    /\ (h.op = "start" /\ ~h.det /\ ~h.binAtCall) =>
           /\ h.ret = "BinaryNotFoundError"
           /\ ~h.spawned
           /\ process[Obs] = h.handleAtCall
    /\ (h.op = "start" /\ h.det /\ ~h.binAtCall) => h.ret \in {"pid", "None"}

\* start() raised BinaryNotFoundError while holding the handle of an old child
C5_Witness ==
    /\ h.op = "start" /\ ~h.det /\ ~h.binAtCall
    /\ h.ret = "BinaryNotFoundError"
    /\ h.handleAtCall # NoProc

\* C6: a background start() of ProcessManager that spawned a child raises the
\* start-up failure if the child has exited when start() looks at it after
\* the delay, and returns the child's pid if it is alive.
C6_BackgroundStartup ==
    (variant = "pm" /\ h.op = "start" /\ h.bg /\ h.spawned /\ Done) =>
        /\ h.aliveAtRet => (h.ret = "pid" /\ h.retPid = h.handleAtRet)
        /\ ~h.aliveAtRet => h.ret = "RuntimeError"

\* C7: a foreground start() that spawned a child has returned only with the
\* child gone, or after an interrupt and then the whole stop path (SIGTERM,
\* polls, SIGKILL) on that child.
C7_ForegroundBlocks ==
    (h.op = "start" /\ ~h.bg /\ h.spawned /\ Done) =>
        /\ h.ret = "None"
        /\ \/ ~h.aliveAtRet
           \/ h.interrupted /\ h.termSent /\ h.killSent

\* an interrupted foreground start() came back after escalating to SIGKILL
C7_Witness ==
    /\ h.op = "start" /\ ~h.bg /\ h.spawned /\ Done
    /\ h.interrupted /\ h.killSent /\ h.aliveAtRet

(***************************************************************************)
(* Claims about the configuration store.                                   *)
(***************************************************************************)
\* C9: Config round trip. Whenever Config.load() reads the file that a
\* completed save() of a Config wrote, it returns a Config equal to the
\* saved one on email, data_dir, server_url, client_url and refresh_token.
C9_RoundTrip ==
    (probe.op = "load" /\ probe.saved.k = "config") =>
        /\ probe.res.k = "config"
        /\ \A k \in Keys : probe.res.c[k] = probe.saved.c[k]

\* a load after the save of a Config that was built without a data_dir and
\* carries a refresh token and non-default URLs
C9_Witness ==
    /\ probe.op = "load"
    /\ probe.saved.k = "config"
    /\ probe.res.k = "config"
    /\ probe.res.c["refresh_token"] = Str("tok")
    /\ probe.res.c["data_dir"] = Str(DefaultDataDir)
    /\ probe.res.c["server_url"] = Str("https://s")
    /\ probe.res.c["client_url"] = Str("http://c")

\* C10: the probes never raise. On a config file that is missing, is not
\* valid JSON or lacks the expected fields, Config.load() / load_config()
\* return None and the is-installed probe returns False, in _config.py and
\* _SyftBox as well as in config.py.
C10_ProbesNeverRaise ==
    /\ probe.res.k # "raise"
    /\ (probe.op # "none" /\ probe.cls \in {"missing", "invalid", "lacking"}) =>
          probe.res.k = (IF probe.op \in {"load", "load_legacy"}
                         THEN "none" ELSE "false")

(***************************************************************************)
(* Claims about the install flows.                                         *)
(***************************************************************************)
\* C8: in every execution of an install flow the config file is created or
\* overwritten only after verify_otp has returned successfully in that
\* execution; when the OTP request, the OTP shape validation, the binary
\* download or the verification fails, the file is exactly as it would be
\* without the flow.
C8_SaveOnlyAfterVerify ==
    fl.flow \in InstallFlows =>
        /\ fl.wrote => fl.verified
        /\ fl.stage \in {"save_open", "save_dump"} => fl.verified
        /\ (fl.result = "error"
            /\ fl.fail \in {"request", "otp", "download", "verify"}) =>
               (~fl.wrote /\ cfgFile = fl.base)

\* a flow has verified the code and written its Config over an older file
C8_Witness ==
    /\ fl.flow \in InstallFlows
    /\ fl.verified /\ fl.wrote
    /\ fl.result = "ok"
    /\ cfgFile = Serialize(fl.cfg)
    /\ cfgFile # fl.base
    /\ fl.base.st = "obj"

\* the flow's save() has completed and the file still stands as written
SavedByFlow ==
    /\ fl.flow \in InstallFlows
    /\ fl.verified /\ fl.wrote
    /\ fl.stage \notin {"save_open", "save_dump"}
    /\ fl.fail # "save"
    /\ lastSaved.k = "config"

C12_TokenMapping ==
    /\ (fl.flow \in InstallFlows /\ fl.verified) =>
          /\ fl.remote.status = "2xx"
          /\ fl.tokens.access_token = FromJson(fl.remote.access)
          /\ fl.tokens.refresh_token = FromJson(fl.remote.refresh)
    /\ SavedByFlow =>
          /\ Load(cfgFile).k = "config"
          /\ Load(cfgFile).c["refresh_token"] = FromJson(fl.remote.refresh)

\* a re-authentication: the file held the refresh token of an earlier
\* verification and now gives the one of the latest
C12_Witness ==
    /\ SavedByFlow
    /\ fl.remote.refresh = Str("tok2")
    /\ fl.base.st = "obj"
    /\ fl.base.f["refresh_token"] = Str("tok")
    /\ fl.base.f["server_url"] = Str(DefaultServer)
    /\ Load(cfgFile).c["refresh_token"] = Str("tok2")

(***************************************************************************)
(* Claims about the Authenticator.                                         *)
(***************************************************************************)
\* a verify_otp call has returned or raised
VerifyDone == auth.op = "verify_otp" /\ auth.stage = "idle"

\* the email and the code pass the checks: a well-formed address and a
\* code that is 8 characters of [0-9A-Z] once stripped, upper-cased and
\* freed of blanks
GoodInput ==
    auth.email = Str("a@b.c") /\ auth.otp \in {"12345678", " ab12 cd34 "}

\* the answer is a 2xx that carries both tokens
BothTokens ==
    /\ auth.resp.status = "2xx" /\ auth.resp.body = "object"
    /\ auth.resp.access.t # "absent" /\ auth.resp.refresh.t # "absent"

\* C13: verify_otp outcome mapping. An invalid email or a code that is not
\* 8 uppercase alphanumeric characters after normalisation raises a
\* validation error and nothing is sent; a 401 raises the invalid-or-expired
\* error, every other network or HTTP failure raises a different
\* authentication error; a 2xx without accessToken or refreshToken raises an
\* authentication error; only a 2xx with both tokens returns a token pair.
C13_VerifyOutcomeMapping ==
    VerifyDone =>
        /\ ~GoodInput => (auth.ret = "ValidationError" /\ auth.sent = 0)
        /\ GoodInput =>
             /\ auth.sent = 1
             /\ auth.resp.status = "401" => auth.ret = "InvalidOtpError"
             /\ auth.resp.status \in {"none", "error"} =>
                   (IsAuthError(auth.ret) /\ auth.ret # "InvalidOtpError")
             /\ (auth.resp.status = "2xx" /\ ~BothTokens) => IsAuthError(auth.ret)
        /\ auth.ret = "tokens" <=> (GoodInput /\ BothTokens)

\* C14: no retry. Every call of request_otp or verify_otp sends at most one
\* HTTP request; a request that fails makes that same call raise; over all
\* calls there are never more requests than calls.
C14_NoRetry ==
    /\ auth.sent <= 1
    /\ auth.posts <= auth.calls
    /\ auth.stage = "awaiting" => (auth.sent = 1 /\ auth.ret = "pending")
    /\ (auth.op # "none" /\ auth.stage = "idle" /\ auth.sent = 1
        /\ auth.resp.status # "2xx") => IsAuthError(auth.ret)

\* a verification failed on a 401 and the caller has called again: two
\* calls, two requests
C14_Witness ==
    /\ auth.calls = 2 /\ auth.posts = 2
    /\ auth.op = "verify_otp" /\ auth.stage = "idle"
    /\ auth.ret = "InvalidOtpError"

(***************************************************************************)
(* Claims about the writing of the config file.                            *)
(***************************************************************************)
\* what is in the file was put there by the save() of the flow
WrittenByFlow ==
    /\ fl.flow \in InstallFlows
    /\ fl.wrote
    /\ cfgFile # fl.base

\* the file is a JSON object with an email member
ValidWithEmail(file) == file.st = "obj" /\ file.f["email"].t # "absent"

\* C15: in every reachable state, also while a save() is in progress and
\* after a save() that failed part-way, the config file as save() leaves
\* it is, if present, valid JSON with at least an email field.
C15_FileAlwaysValid ==
    (WrittenByFlow /\ cfgFile.st # "missing") => ValidWithEmail(cfgFile)

\* the two saves were interleaved and both have returned
BothSaved ==
    \A w \in Writers : wr[w].stage = "done" /\ wr[w].overlapped

\* C16: concurrent writers. When two save() calls on the config path are
\* interleaved and both complete, the file is exactly the serialization of
\* one of the two configurations, never a mixture, and Config.load() then
\* returns that configuration.
C16_LastWriterWins ==
    BothSaved =>
        \E w \in Writers :
            /\ cfgFile = Serialize(wr[w].cfg)
            /\ Load(cfgFile) = ResCfg(wr[w].cfg)

(***************************************************************************)
(* Claims about the facade and the daemons of the host.                    *)
(***************************************************************************)
\* kill_all_daemons(force) has returned
KillAllDone == fc.op = "kill_all" /\ fc.stage = "done"

\* a step of the loop of kill_all_daemons that counts a process
KillCounted ==
    fc.op = "kill_all" /\ fc.stage = "kill" /\ fc'.killed # fc.killed

\* C17: kill_all_daemons(force) returns the number of enumerated processes
\* to which the signal was delivered; an enumerated process that no longer
\* exists or belongs to another user is passed over without an exception
\* and without being counted, so 0 <= result <= number of processes
\* enumerated by find_daemons().
C17_KillAllCount ==
    /\ [](KillAllDone =>
            /\ fc.ret = "count"
            /\ fc.killed = Cardinality(fc.signalled)
            /\ fc.signalled \cup fc.skipped = fc.daemons
            /\ fc.signalled \cap fc.skipped = {}
            /\ 0 <= fc.killed /\ fc.killed <= Cardinality(fc.daemons))
    /\ [][KillCounted =>
            \E p \in fc.daemons :
                /\ Signallable(p)
                /\ fc'.signalled = fc.signalled \cup {p}
                /\ fc'.killed = fc.killed + 1
                /\ table'[p] # "run"]_vars

\* kill_all_daemons has counted one process and passed over a gone one and
\* one of another user
C17_Witness ==
    /\ KillAllDone
    /\ fc.killed >= 1
    /\ \E p \in fc.skipped : kind[p] = "foreign"
    /\ \E p \in fc.skipped : kind[p] # "foreign"

\* a step of stop(all=False): its call, a poll of its loop, its return
StopOneStep == h'.op = "stop" /\ h' # h

\* stop(all=True) has returned
StopAllDone == fc.op = "stop_all" /\ fc.stage = "done"

\* a step of the loop of stop(all=True)
StopAllStep == fc.op = "stop_all" /\ fc.stage = "kill" /\ fc.todo # {}

\* stop(all=False) signals nothing but the child in the handle
StopOneFrame ==
    /\ [](h.op = "stop" => h.signalled \subseteq {h.handleAtCall} \ {NoProc})
    /\ [][StopOneStep =>
            \A p \in Pids \ {process[Obs]} : table'[p] = table[p]]_vars

\* the same of a stop(all=False) that ends in ProcessManager.stop()
StopOneFramePm ==
    /\ [](h.op = "stop" /\ variant = "pm"
            => h.signalled \subseteq {h.handleAtCall} \ {NoProc})
    /\ [][StopOneStep /\ variant = "pm" =>
            \A p \in Pids \ {process[Obs]} : table'[p] = table[p]]_vars

UninstallReturns ==
    fc.op = "uninstall" /\ fc.stage = "delete" /\ fc'.stage = "done"

\* C19: when uninstall() goes ahead and returns, every running syftbox
\* daemon has been stopped and ~/SyftBox, ~/.syftbox and ~/.local/bin/syftbox
\* are gone, so is_installed and is_running are False; the daemons are
\* signalled before any path is deleted; when the confirmation is declined
\* nothing is signalled or deleted.
C19_Uninstall ==
    /\ [][UninstallReturns =>
            /\ \A p \in Pids : ~Matches(p)
            /\ ~is_running(Obs)
            /\ ~dataDir /\ cfgFile = Missing /\ ~binaryExists
            /\ IsInstalled(cfgFile, binaryExists).k = "false"]_vars
    /\ [](fc.op = "uninstall" => ~fc.lateSignal)
    /\ [](fc.op = "uninstall" /\ fc.ret = "cancelled" =>
            fc.signalled = {} /\ fc.deleted = {})

\* start_if_stopped() has returned a value
StartIfReturned ==
    fc.op = "start_if_stopped" /\ fc.stage = "done"
    /\ fc.ret \in {"True", "False"}

\* C20: start_if_stopped() / run_if_stopped() returns True iff this call
\* started a new daemon process; it returns False and spawns nothing when
\* SyftBox is not installed or a daemon is already running, also when
\* another starter launches the daemon between this call's liveness check
\* and its start.
C20_StartIfStopped ==
    StartIfReturned =>
        /\ (fc.ret = "True") <=> fc.spawned
        /\ (~fc.installed \/ fc.running) => fc.ret = "False"

(***************************************************************************)
(* Further claims about the supervisor.                                    *)
(***************************************************************************)
\* stop() has returned on an instance that held a live child
StoppedLive == h.op = "stop" /\ h.liveAtCall /\ Done

\* C22 as stated: after stop() returns on an instance that held a live
\* child, the handle is None, whether the child went gracefully or was
\* killed.
C22_Original == StoppedLive => h.handleAtRet = NoProc

\* C22: after stop() returns on an instance that held a live child,
\* Launcher has set its handle to None, whether the child went gracefully
\* or was killed; ProcessManager still holds the handle of that child.
C22_HandleAfterStop ==
    StoppedLive =>
        /\ variant = "launcher" => h.handleAtRet = NoProc
        /\ variant = "pm" => h.handleAtRet = h.handleAtCall

\* a Launcher's stop() has returned after it had to kill its child
C22_Witness == StoppedLive /\ variant = "launcher" /\ h.killSent

\* ProcessManager.stop() has returned
PmStopped == h.op = "stop" /\ Done /\ variant = "pm"

C29_ReturnedPidAlive ==
    (h.op = "start" /\ Done /\ h.ret = "pid") =>
        /\ h.retPid # NoProc
        /\ h.retPid = h.handleAtRet
        /\ h.aliveAtRet

\* both instances hold a child of their own that is alive
BothSpawned ==
    /\ process[Obs] # NoProc /\ process[Other] # NoProc
    /\ process[Obs] # process[Other]
    /\ Alive(process[Obs]) /\ Alive(process[Other])

\* C27: under any interleaving of the start() calls of two supervisor
\* instances on a host whose liveness scan works, at most one daemon is
\* spawned while none was running: the two instances never both hold a live
\* child.
C27_AtMostOneSpawn == scanTool # "none" => ~BothSpawned

\* C28: the two process-detection predicates agree on every process table:
\* find_daemons() returns a non-empty list iff is_running() returns true,
\* and every process that kill_all_daemons signals is one whose command
\* line matches the daemon invocation pattern of is_running.
C28_DetectorsAgree ==
    /\ (find_daemons # {}) <=> is_running(Obs)
    /\ fc.op = "kill_all" => \A p \in fc.signalled : kind[p] \in {"daemon", "foreign"}

(***************************************************************************)
(* Claims about the pure functions.                                        *)
(***************************************************************************)
\* get_binary_url was called on a supported platform
Supported ==
    /\ pure.fn = "get_binary_url"
    /\ Lower(pure.b) \in {"darwin", "linux"}
    /\ Lower(pure.c) \in {"x86_64", "amd64", "arm64", "aarch64"}

\* the architecture token for the machine of the call
ArchToken == IF Lower(pure.c) \in {"x86_64", "amd64"} THEN "amd64" ELSE "arm64"

\* C24 as stated: on a supported platform the URL is
\* <base>/releases/syftbox_client_<os>_<arch>.tar.gz; on any other platform
\* an unsupported-platform error is raised and no URL is produced.
C24_Original ==
    pure.fn = "get_binary_url" =>
        IF Supported
        THEN /\ pure.ret.k = "url"
             /\ pure.ret.url = <<pure.a, "/releases/", "syftbox_client_",
                                 Lower(pure.b), "_", ArchToken, ".tar.gz">>
        ELSE pure.ret.k = "PlatformError" /\ pure.ret.url = <<>>

\* C24: on a supported platform get_binary_url of _utils.py gives
\* <base>/releases/syftbox_client_<os>_<arch>.tar.gz and the one of
\* platform.py gives <base>/binaries/syftbox-<os>-<arch>.tar.gz, with the
\* normalised OS and architecture tokens in those positions; for any other
\* OS or architecture both raise an unsupported-platform error and produce
\* no URL.
C24_BinaryUrl ==
    pure.fn = "get_binary_url" =>
        IF Supported
        THEN /\ pure.ret.k = "url"
             /\ pure.module = "_utils" =>
                  pure.ret.url = <<pure.a, "/releases/", "syftbox_client_",
                                   Lower(pure.b), "_", ArchToken, ".tar.gz">>
             /\ pure.module = "platform" =>
                  pure.ret.url = <<pure.a, "/binaries/", "syftbox-",
                                   Lower(pure.b), "-", ArchToken, ".tar.gz">>
        ELSE pure.ret.k = "PlatformError" /\ pure.ret.url = <<>>

\* _utils.get_binary_url on Darwin / arm64
C24_Witness ==
    /\ pure.fn = "get_binary_url" /\ pure.module = "_utils"
    /\ pure.b = "Darwin" /\ pure.c = "arm64"
    /\ pure.ret.k = "url"

\* a character that is not whitespace
NotSpace(c) == ~IsSpace(c)

\* the text is exactly 8 characters, each in 0-9 or A-Z
EightUpperAlnum(x) ==
    Len(Chars(x)) = 8 /\ \A i \in 1..8 : OtpChar(Chars(x)[i])

\* what both readings of C25 share: upper case, outer whitespace gone, the
\* other characters kept in order, idempotence, and validation after
\* sanitization true iff exactly 8 characters in 0-9 or A-Z
SanitizeCommon ==
    /\ pure.fn = "sanitize_otp" =>
         LET s == Chars(pure.a)
             r == Chars(pure.ret.v)
         IN  /\ \A i \in 1..Len(r) : r[i] \notin {"a", "b", "c", "d"}
             /\ r # <<>> => NotSpace(r[1]) /\ NotSpace(r[Len(r)])
             /\ SelectSeq(r, NotSpace) = Upper(SelectSeq(s, NotSpace))
             /\ sanitize_otp(pure.ret.v) = pure.ret.v
    /\ pure.fn = "sanitize_validate" =>
         (pure.ret.v <=> EightUpperAlnum(pure.b))

\* C25 as stated: sanitize_otp uppercases and strips internal and outer
\* whitespace, validate_otp of the sanitized text is true iff it is exactly
\* 8 characters in 0-9 or A-Z, and sanitize_otp is idempotent.
C25_Original ==
    /\ SanitizeCommon
    /\ pure.fn = "sanitize_otp" =>
         \A i \in 1..Len(Chars(pure.ret.v)) : NotSpace(Chars(pure.ret.v)[i])

\* C25: sanitize_otp uppercases the input and removes outer whitespace and
\* every space character (an inner tab or newline stays); validate_otp of
\* the sanitized text is true iff it is exactly 8 characters, each in 0-9 or
\* A-Z; sanitize_otp is idempotent.
C25_OtpFunctions ==
    /\ SanitizeCommon
    /\ pure.fn = "sanitize_otp" =>
         \A i \in 1..Len(Chars(pure.ret.v)) : Chars(pure.ret.v)[i] # " "

\* "ab cd 12 34" was sanitized to "ABCD1234" and accepted
C25_Witness ==
    /\ pure.fn = "sanitize_validate" /\ pure.a = "ab cd 12 34"
    /\ pure.b = "ABCD1234" /\ pure.ret.v

\* a call of submit_otp on an InstallerSession has returned
SubmitReturned ==
    /\ fl.flow = "submit" /\ fl.session /\ fl.stage = "session"
    /\ fl.result \in {"ok", "error"}

\* C30: when submit_otp returns status "error" the session's is_complete is
\* False and that call has written no config; when it returns "success" the
\* config was saved and is_complete is True.
C30_SubmitOutcome ==
    SubmitReturned =>
        /\ fl.result = "error" => ~fl.complete /\ ~fl.wrote
        /\ fl.result = "ok" => fl.complete /\ fl.wrote

\* C21: every module-level operation acts on one shared _SyftBox: once the
\* module holds an instance, later calls reuse it (and with it the handle of
\* the supervisor).
C21_SharedInstance == [][instance # NoInst => instance' = instance]_vars

\* step 2 of the SimpleInstaller has sent a verification request or written
\* the config
SimpleStep2Acted ==
    /\ fl.flow = "step2"
    /\ \/ fl.stage \in {"verify", "save_open", "save_dump", "start", "starting"}
       \/ fl.verified \/ fl.wrote
       \/ fl.fail \in {"verify", "save", "start"}

\* a call of install_step2_verify_otp has raised
ProgStep2Failed == prog.op = "step2" /\ prog.ret # "None"

\* the ordering half of C26: no verification request and no config from a
\* step 2 unless step 1 of the same object has had the code requested, and
\* no second success on a ProgrammaticInstaller
TwoStepOrder ==
    /\ SimpleStep2Acted => fl.otpRequested
    /\ fl.flow = "step2" /\ fl.fail = "order" => ~fl.wrote /\ ~fl.verified
    /\ prog.op = "step2" /\ (prog.sent \/ prog.wrote) => prog.otpRequested
    /\ prog.op = "step2" /\ prog.doneBefore =>
         prog.ret = "ValueError" /\ ~prog.sent /\ ~prog.wrote

====
